---- MODULE Spec2Model ----
(***************************************************************************)
(* Model of the pbio motor-control core: the state observer                *)
(* (lib/pbio/src/observer.c), the per-type model table                     *)
(* (lib/pbio/src/motor/servo_settings.c) and the servo facade with its     *)
(* periodic poll (lib/pbio/src/servo.c).                                   *)
(*                                                                         *)
(* Two specifications share the module: ObsSpec drives one observer with   *)
(* reset/update calls, Spec drives the servo table with get/poll/user      *)
(* commands.  All C arithmetic is int32_t; TLC's integers are 32 bit as    *)
(* well and trap on overflow, so the wrapping operators below compute the  *)
(* two's complement result without ever leaving the range.  Signed         *)
(* overflow is undefined in C; the 32-bit multiply and add instructions of *)
(* the targets produce the wrapped value, which is what is modelled, and   *)
(* the range property of the angle is also shown for any value of an       *)
(* overflowing product.                                                    *)
(***************************************************************************)
EXTENDS Integers, Sequences, FiniteSets, TLC

VARIABLES
    obs,      \* pbio_observer_t: angle_offset, angle, speed, current, stalled, stall_start
    model,    \* obs->model, the static observer model the observer borrows
    clock,    \* the microsecond clock (int32) at the last observer call
    nticks,   \* number of observer calls made so far (bounded by MaxTicks)
    hist,     \* history: <<time, raw stall predicate>> per update, <<time, FALSE>> per reset
    g,        \* history: arguments and intermediate values of the last observer call
    servo,    \* static pbio_servo_t servo[PBDRV_CONFIG_NUM_MOTOR_CONTROLLER]
    dc,       \* per port: last command the DC motor driver received
    polling,  \* position of the loop of _pbio_servo_poll: the index serviced next
    pending,  \* the actuation a control update has computed and not yet applied
    settings, \* the pbio_control_settings_t a caller hands to pbio_servo_load_settings
    last      \* history: the last servo operation, its result and its driver calls

obsvars == <<obs, model, clock, nticks, hist, g>>
srvvars == <<servo, dc, polling, pending, settings, last>>
vars == <<obs, model, clock, nticks, hist, g, servo, dc, polling, pending, settings, last>>

-----------------------------------------------------------------------------
(* int32_t arithmetic *)

MaxInt32 == 2147483647
MinInt32 == -2147483647 - 1

\* a + b in int32_t, wrapping (two's complement)
Add32(a, b) ==
    IF a >= 0 /\ b > MaxInt32 - a THEN (a + MinInt32) + (b + MinInt32)
    ELSE IF a < 0 /\ b < MinInt32 - a THEN (a - MinInt32) + (b - MinInt32)
    ELSE a + b

\* -a in int32_t, wrapping
Neg32(a) == IF a = MinInt32 THEN MinInt32 ELSE 0 - a

\* a - b in int32_t, wrapping
Sub32(a, b) ==
    IF b = MinInt32 THEN Add32(Add32(a, MaxInt32), 1) ELSE Add32(a, 0 - b)

Abs(a) == IF a < 0 THEN 0 - a ELSE a

\* a * b for b > 0 by shift and add, every partial sum wrapping
RECURSIVE MulShiftAdd(_, _)
MulShiftAdd(a, b) ==
    IF b = 0 THEN 0
    ELSE Add32(IF b % 2 = 1 THEN a ELSE 0, MulShiftAdd(Add32(a, a), b \div 2))

\* a * b in int32_t, wrapping
Mul32(a, b) ==
    IF a = 0 \/ b = 0 THEN 0
    ELSE IF b = MinInt32 THEN (IF a % 2 = 0 THEN 0 ELSE MinInt32)
    ELSE IF a = MinInt32 THEN (IF b % 2 = 0 THEN 0 ELSE MinInt32)
    ELSE IF Abs(a) <= MaxInt32 \div Abs(b) THEN a * b
    ELSE IF b < 0 THEN Neg32(MulShiftAdd(a, 0 - b))
    ELSE MulShiftAdd(a, b)

\* a / b of C: the quotient truncated toward zero (b # 0)
CDiv(a, b) ==
    IF a = MinInt32 THEN (IF b > 0 THEN 0 - ((MaxInt32 \div b) + (IF (MaxInt32 % b) + 1 = b THEN 1 ELSE 0))
                          ELSE (MaxInt32 \div (0 - b)) + (IF (MaxInt32 % (0 - b)) + 1 = (0 - b) THEN 1 ELSE 0))
    ELSE IF (a >= 0) = (b > 0) THEN Abs(a) \div Abs(b)
    ELSE 0 - (Abs(a) \div Abs(b))

-----------------------------------------------------------------------------
(* Constants of observer.c and of the headers it includes *)

PBDRV_CONFIG_COUNTER_COUNTS_PER_DEGREE == 1
MDEG_PER_DEG == 1000
MDEG_MAX == 1000000 * MDEG_PER_DEG
US_PER_MS == 1000
STALL_TIME_MS == 200
STALL_SPEED_DEG == 50

PRESCALE_SPEED == 858
PRESCALE_ACCELERATION == 8
PRESCALE_CURRENT == 71582
PRESCALE_VOLTAGE == 178956
PRESCALE_TORQUE == 2147

-----------------------------------------------------------------------------
(* Observer models of servo_settings.c, transcribed verbatim *)

model_technic_s_angular ==
    [ d_angle_d_speed |-> 179217,
      d_speed_d_speed |-> 956,
      d_current_d_speed |-> -249247,
      d_angle_d_current |-> 1950303,
      d_speed_d_current |-> 7666,
      d_current_d_current |-> -9356019,
      d_angle_d_voltage |-> 5654927,
      d_speed_d_voltage |-> 11702,
      d_current_d_voltage |-> 349105,
      d_angle_d_torque |-> -425928,
      d_speed_d_torque |-> -1085,
      d_current_d_torque |-> 383927,
      d_voltage_d_torque |-> 22334,
      d_torque_d_voltage |-> 17203,
      d_torque_d_speed |-> 12282,
      d_torque_d_acceleration |-> 354592,
      torque_friction |-> 9182,
      gain |-> 500 ]

model_technic_m_angular ==
    [ d_angle_d_speed |-> 177194,
      d_speed_d_speed |-> 934,
      d_current_d_speed |-> -165023,
      d_angle_d_current |-> 2407354,
      d_speed_d_current |-> 8311,
      d_current_d_current |-> 1058029,
      d_angle_d_voltage |-> 7431528,
      d_speed_d_voltage |-> 14444,
      d_current_d_voltage |-> 225610,
      d_angle_d_torque |-> -919183,
      d_speed_d_torque |-> -2332,
      d_current_d_torque |-> 629020,
      d_voltage_d_torque |-> 47606,
      d_torque_d_voltage |-> 8071,
      d_torque_d_speed |-> 5903,
      d_torque_d_acceleration |-> 163151,
      torque_friction |-> 21413,
      gain |-> 2000 ]

model_technic_l_angular ==
    [ d_angle_d_speed |-> 174943,
      d_speed_d_speed |-> 904,
      d_current_d_speed |-> -58045,
      d_angle_d_current |-> 8368268,
      d_speed_d_current |-> 26508,
      d_current_d_current |-> 396164,
      d_angle_d_voltage |-> 13442903,
      d_speed_d_voltage |-> 25105,
      d_current_d_voltage |-> 86900,
      d_angle_d_torque |-> -3690545,
      d_speed_d_torque |-> -9310,
      d_current_d_torque |-> 975141,
      d_voltage_d_torque |-> 133763,
      d_torque_d_voltage |-> 2872,
      d_torque_d_speed |-> 1919,
      d_torque_d_acceleration |-> 40344,
      torque_friction |-> 23239,
      gain |-> 4000 ]

model_interactive ==
    [ d_angle_d_speed |-> 179110,
      d_speed_d_speed |-> 941,
      d_current_d_speed |-> -316164,
      d_angle_d_current |-> 7311289,
      d_speed_d_current |-> 35750,
      d_current_d_current |-> -12014584,
      d_angle_d_voltage |-> 4603893,
      d_speed_d_voltage |-> 10967,
      d_current_d_voltage |-> 355664,
      d_angle_d_torque |-> -728461,
      d_speed_d_torque |-> -1850,
      d_current_d_torque |-> 668004,
      d_voltage_d_torque |-> 32225,
      d_torque_d_voltage |-> 11923,
      d_torque_d_speed |-> 10599,
      d_torque_d_acceleration |-> 207820,
      torque_friction |-> 11227,
      gain |-> 2000 ]

model_technic_l ==
    [ d_angle_d_speed |-> 175977,
      d_speed_d_speed |-> 912,
      d_current_d_speed |-> -159828,
      d_angle_d_current |-> 5728019,
      d_speed_d_current |-> 22787,
      d_current_d_current |-> -44152415,
      d_angle_d_voltage |-> 6164994,
      d_speed_d_voltage |-> 12888,
      d_current_d_voltage |-> 142828,
      d_angle_d_torque |-> -1377701,
      d_speed_d_torque |-> -3482,
      d_current_d_torque |-> 794862,
      d_voltage_d_torque |-> 62889,
      d_torque_d_voltage |-> 6110,
      d_torque_d_speed |-> 6837,
      d_torque_d_acceleration |-> 108520,
      torque_friction |-> 26430,
      gain |-> 1500 ]

model_technic_xl ==
    [ d_angle_d_speed |-> 176559,
      d_speed_d_speed |-> 916,
      d_current_d_speed |-> -175173,
      d_angle_d_current |-> 8098298,
      d_speed_d_current |-> 35736,
      d_current_d_current |-> -7606150,
      d_angle_d_voltage |-> 5471477,
      d_speed_d_voltage |-> 12148,
      d_current_d_voltage |-> 156891,
      d_angle_d_torque |-> -1282598,
      d_speed_d_torque |-> -3244,
      d_current_d_torque |-> 729279,
      d_voltage_d_torque |-> 55617,
      d_torque_d_voltage |-> 6908,
      d_torque_d_speed |-> 7713,
      d_torque_d_acceleration |-> 116867,
      torque_friction |-> 12893,
      gain |-> 2000 ]

model_movehub ==
    [ d_angle_d_speed |-> 176283,
      d_speed_d_speed |-> 913,
      d_current_d_speed |-> -202833,
      d_angle_d_current |-> 7437051,
      d_speed_d_current |-> 32807,
      d_current_d_current |-> -8118383,
      d_angle_d_voltage |-> 5022928,
      d_speed_d_voltage |-> 11156,
      d_current_d_voltage |-> 157720,
      d_angle_d_torque |-> -966059,
      d_speed_d_torque |-> -2442,
      d_current_d_torque |-> 636829,
      d_voltage_d_torque |-> 45536,
      d_torque_d_voltage |-> 8438,
      d_torque_d_speed |-> 10851,
      d_torque_d_acceleration |-> 155017,
      torque_friction |-> 24835,
      gain |-> 2000 ]

model_ev3_l ==
    [ d_angle_d_speed |-> 173282,
      d_speed_d_speed |-> 881,
      d_current_d_speed |-> -69014,
      d_angle_d_current |-> 15363470,
      d_speed_d_current |-> 49919,
      d_current_d_current |-> 491835,
      d_angle_d_voltage |-> 30444180,
      d_speed_d_voltage |-> 57613,
      d_current_d_voltage |-> 118854,
      d_angle_d_torque |-> -7467749,
      d_speed_d_torque |-> -18754,
      d_current_d_torque |-> 2298785,
      d_voltage_d_torque |-> 107106,
      d_torque_d_voltage |-> 3587,
      d_torque_d_speed |-> 2083,
      d_torque_d_acceleration |-> 19838,
      torque_friction |-> 16476,
      gain |-> 4000 ]

model_ev3_m ==
    [ d_angle_d_speed |-> 174833,
      d_speed_d_speed |-> 899,
      d_current_d_speed |-> -179788,
      d_angle_d_current |-> 5508196,
      d_speed_d_current |-> 20798,
      d_current_d_current |-> 4313632,
      d_angle_d_voltage |-> 10143433,
      d_speed_d_voltage |-> 20656,
      d_current_d_voltage |-> 196531,
      d_angle_d_torque |-> -1577148,
      d_speed_d_torque |-> -3975,
      d_current_d_torque |-> 1082649,
      d_voltage_d_torque |-> 47722,
      d_torque_d_voltage |-> 8051,
      d_torque_d_speed |-> 7365,
      d_torque_d_acceleration |-> 94428,
      torque_friction |-> 18317,
      gain |-> 2000 ]

\* every model of the table
ObserverModels ==
    { model_technic_s_angular, model_technic_m_angular, model_technic_l_angular,
      model_interactive, model_technic_l, model_technic_xl, model_movehub,
      model_ev3_l, model_ev3_m }

-----------------------------------------------------------------------------
(* servo_settings.c: maximum voltage and settings of a motor type, in a build
   with PBIO_CONFIG_SERVO_EV3_NXT, PBIO_CONFIG_SERVO_PUP and
   PBIO_CONFIG_SERVO_PUP_MOVE_HUB enabled *)

\* a faulty maximum voltage that lowers the limit for the wrong motor
max_voltage_wrong_motor(id) ==
    IF id = "SPIKE_M_MOTOR" THEN 6000 ELSE 9000

\* pbio_dcmotor_get_max_voltage (servo_settings.c lines 221-226)
pbio_dcmotor_get_max_voltage(id) ==
    IF id = "SPIKE_S_MOTOR" THEN 6000 ELSE 9000

\* DEG_TO_MDEG (servo_settings.c line 228)
DEG_TO_MDEG(deg) == deg * 1000

\* pbio_control_time_ms_to_ticks: control ticks of 100 us
pbio_control_time_ms_to_ticks(ms) == ms * 10

\* a pbio_control_settings_t in static storage, before any load
SettingsZero ==
    [ speed_tolerance |-> 0, position_tolerance |-> 0, stall_speed_limit |-> 0,
      stall_time |-> 0, integral_change_max |-> 0,
      speed_max |-> 0, acceleration |-> 0, pid_kp |-> 0, pid_kd |-> 0,
      speed_default |-> 0, deceleration |-> 0, actuation_max |-> 0, pid_ki |-> 0 ]

\* the cases of the switch (servo_settings.c lines 248-324): the model and
\* the speed, acceleration and PD settings of a type id; no entry for an id
\* that returns NOT_SUPPORTED
TypeSettings ==
    [ EV3_MEDIUM_MOTOR |-> [model |-> model_ev3_m, speed_max |-> DEG_TO_MDEG(2000),
          acceleration |-> DEG_TO_MDEG(8000), pid_kp |-> 3000, pid_kd |-> 30],
      EV3_LARGE_MOTOR |-> [model |-> model_ev3_l, speed_max |-> DEG_TO_MDEG(1600),
          acceleration |-> DEG_TO_MDEG(3200), pid_kp |-> 15000, pid_kd |-> 250],
      INTERACTIVE_MOTOR |-> [model |-> model_interactive, speed_max |-> DEG_TO_MDEG(1000),
          acceleration |-> DEG_TO_MDEG(2000), pid_kp |-> 13500, pid_kd |-> 1350],
      MOVE_HUB_MOTOR |-> [model |-> model_movehub, speed_max |-> DEG_TO_MDEG(1500),
          acceleration |-> DEG_TO_MDEG(5000), pid_kp |-> 15000, pid_kd |-> 500],
      TECHNIC_L_MOTOR |-> [model |-> model_technic_l, speed_max |-> DEG_TO_MDEG(1470),
          acceleration |-> DEG_TO_MDEG(2000), pid_kp |-> 17500, pid_kd |-> 2500],
      TECHNIC_XL_MOTOR |-> [model |-> model_technic_xl, speed_max |-> DEG_TO_MDEG(1525),
          acceleration |-> DEG_TO_MDEG(2500), pid_kp |-> 17500, pid_kd |-> 2500],
      SPIKE_S_MOTOR |-> [model |-> model_technic_s_angular, speed_max |-> DEG_TO_MDEG(620),
          acceleration |-> DEG_TO_MDEG(2000), pid_kp |-> 7500, pid_kd |-> 1000],
      TECHNIC_L_ANGULAR_MOTOR |-> [model |-> model_technic_l_angular,
          speed_max |-> DEG_TO_MDEG(970),
          acceleration |-> DEG_TO_MDEG(1500), pid_kp |-> 35000, pid_kd |-> 6000],
      SPIKE_L_MOTOR |-> [model |-> model_technic_l_angular, speed_max |-> DEG_TO_MDEG(970),
          acceleration |-> DEG_TO_MDEG(1500), pid_kp |-> 35000, pid_kd |-> 6000],
      TECHNIC_M_ANGULAR_MOTOR |-> [model |-> model_technic_m_angular,
          speed_max |-> DEG_TO_MDEG(1080),
          acceleration |-> DEG_TO_MDEG(2000), pid_kp |-> 15000, pid_kd |-> 1800],
      SPIKE_M_MOTOR |-> [model |-> model_technic_m_angular, speed_max |-> DEG_TO_MDEG(1080),
          acceleration |-> DEG_TO_MDEG(2000), pid_kp |-> 15000, pid_kd |-> 1800] ]

-----------------------------------------------------------------------------
(* observer.c *)

\* a faulty conversion that divides by the prescaler of the torque
torque_to_voltage_torque_prescale(m, desired_torque) ==
    CDiv(Mul32(desired_torque, m.d_torque_d_voltage), PRESCALE_TORQUE)

\* pbio_observer_torque_to_voltage
pbio_observer_torque_to_voltage(m, desired_torque) ==
    CDiv(Mul32(desired_torque, m.d_torque_d_voltage), PRESCALE_VOLTAGE)

\* pbio_observer_voltage_to_torque
pbio_observer_voltage_to_torque(m, voltage) ==
    CDiv(Mul32(PRESCALE_VOLTAGE, voltage), m.d_torque_d_voltage)

\* a faulty reset that leaves the stall flag as it was
reset_keeps_stalled(o, count_now) ==
    [o EXCEPT !.angle_offset = CDiv(count_now, PBDRV_CONFIG_COUNTER_COUNTS_PER_DEGREE),
              !.angle = 0,
              !.speed = 0,
              !.current = 0]

\* pbio_observer_reset: the offset takes the measured degrees, the state is
\* zeroed, the stall flag cleared; stall_start is left as it was
pbio_observer_reset(o, count_now) ==
    [o EXCEPT !.angle_offset = CDiv(count_now, PBDRV_CONFIG_COUNTER_COUNTS_PER_DEGREE),
              !.angle = 0,
              !.speed = 0,
              !.current = 0,
              !.stalled = FALSE]

\* pbio_observer_get_estimated_state: <<count, rate>>
pbio_observer_get_estimated_state(o) ==
    << Add32(o.angle_offset, CDiv(o.angle, MDEG_PER_DEG)), CDiv(o.speed, MDEG_PER_DEG) >>

\* a faulty stall condition whose conversion to forward motion leaves the
\* speed as it is
stall_condition_keeps_speed(speed0, voltage0, feedback0) ==
    LET flip == voltage0 < 0
        voltage == IF flip THEN Mul32(voltage0, -1) ELSE voltage0
        feedback_voltage == IF flip THEN Mul32(feedback0, -1) ELSE feedback0
    IN  /\ speed0 < STALL_SPEED_DEG * MDEG_PER_DEG
        /\ feedback_voltage < 0
        /\ Neg32(feedback_voltage) > CDiv(voltage, 2)

\* the condition of the if in update_stall_state, after the conversion to
\* forward motion
StallCondition(speed0, voltage0, feedback0) ==
    LET flip == voltage0 < 0
        speed == IF flip THEN Mul32(speed0, -1) ELSE speed0
        voltage == IF flip THEN Mul32(voltage0, -1) ELSE voltage0
        feedback_voltage == IF flip THEN Mul32(feedback0, -1) ELSE feedback0
    IN  /\ speed < STALL_SPEED_DEG * MDEG_PER_DEG
        /\ feedback_voltage < 0
        /\ Neg32(feedback_voltage) > CDiv(voltage, 2)

\* a faulty update_stall_state whose else branch is missing
stall_state_never_cleared(o, time, voltage, feedback_voltage) ==
    IF StallCondition(o.speed, voltage, feedback_voltage)
    THEN [o EXCEPT !.stall_start = IF o.stalled THEN @ ELSE time,
                   !.stalled = TRUE]
    ELSE o

\* update_stall_state
update_stall_state(o, time, voltage, feedback_voltage) ==
    IF StallCondition(o.speed, voltage, feedback_voltage)
    THEN [o EXCEPT !.stall_start = IF o.stalled THEN @ ELSE time,
                   !.stalled = TRUE]
    ELSE [o EXCEPT !.stalled = FALSE]

\* the measured count converted to model millidegrees (observer.c line 84)
MeasuredAngle(o, count) ==
    Mul32(Sub32(CDiv(count, PBDRV_CONFIG_COUNTER_COUNTS_PER_DEGREE), o.angle_offset),
          MDEG_PER_DEG)

\* the observer error fed back as a voltage (observer.c line 91)
FeedbackVoltage(m, o, count) ==
    pbio_observer_torque_to_voltage(m,
        CDiv(Mul32(m.gain, Sub32(MeasuredAngle(o, count), o.angle)), MDEG_PER_DEG))

\* the only modeled torque, a static friction torque (observer.c line 101)
FrictionTorque(m, o) ==
    IF o.speed > 0 THEN m.torque_friction ELSE 0 - m.torque_friction

\* one term PRESCALE * x / d of the state transition
Term(prescale, x, d) == CDiv(Mul32(prescale, x), d)

\* angle_next before range normalisation (observer.c lines 104-108)
AngleNext(m, o, voltage, torque) ==
    Add32(Add32(Add32(Add32(o.angle,
        Term(PRESCALE_SPEED, o.speed, m.d_angle_d_speed)),
        Term(PRESCALE_CURRENT, o.current, m.d_angle_d_current)),
        Term(PRESCALE_VOLTAGE, voltage, m.d_angle_d_voltage)),
        Term(PRESCALE_TORQUE, torque, m.d_angle_d_torque))

\* speed_next before the friction check (observer.c lines 109-113)
SpeedNextLinear(m, o, voltage, torque) ==
    Add32(Add32(Add32(Add32(0,
        Term(PRESCALE_SPEED, o.speed, m.d_speed_d_speed)),
        Term(PRESCALE_CURRENT, o.current, m.d_speed_d_current)),
        Term(PRESCALE_VOLTAGE, voltage, m.d_speed_d_voltage)),
        Term(PRESCALE_TORQUE, torque, m.d_speed_d_torque))

\* current_next (observer.c lines 114-118)
CurrentNext(m, o, voltage, torque) ==
    Add32(Add32(Add32(Add32(0,
        Term(PRESCALE_SPEED, o.speed, m.d_current_d_speed)),
        Term(PRESCALE_CURRENT, o.current, m.d_current_d_current)),
        Term(PRESCALE_VOLTAGE, voltage, m.d_current_d_voltage)),
        Term(PRESCALE_TORQUE, torque, m.d_current_d_torque))

\* a faulty friction check that commits the linear combination as it is
speed_without_friction_check(m, o, voltage, torque) ==
    SpeedNextLinear(m, o, voltage, torque)

\* the friction check (observer.c lines 121-123)
SpeedNext(m, o, voltage, torque) ==
    LET speed_next == SpeedNextLinear(m, o, voltage, torque)
        without == Sub32(speed_next, Term(PRESCALE_TORQUE, torque, m.d_speed_d_torque))
    IN  IF (speed_next < 0) # (without < 0) THEN 0 ELSE speed_next

\* a faulty normalisation that moves the offset and leaves the angle
normalize_offset_only(angle_next, angle_offset) ==
    IF angle_next > MDEG_MAX
    THEN << angle_next, Add32(angle_offset, MDEG_MAX \div MDEG_PER_DEG) >>
    ELSE IF angle_next < 0 - MDEG_MAX
    THEN << angle_next, Sub32(angle_offset, MDEG_MAX \div MDEG_PER_DEG) >>
    ELSE << angle_next, angle_offset >>

\* a faulty normalisation that moves the offset by millidegrees
normalize_offset_in_mdeg(angle_next, angle_offset) ==
    IF angle_next > MDEG_MAX
    THEN << Sub32(angle_next, MDEG_MAX), Add32(angle_offset, MDEG_MAX) >>
    ELSE IF angle_next < 0 - MDEG_MAX
    THEN << Add32(angle_next, MDEG_MAX), Sub32(angle_offset, MDEG_MAX) >>
    ELSE << angle_next, angle_offset >>

\* range normalisation (observer.c lines 126-132): <<angle, angle_offset>>
NormalizeAngle(angle_next, angle_offset) ==
    IF angle_next > MDEG_MAX
    THEN << Sub32(angle_next, MDEG_MAX), Add32(angle_offset, MDEG_MAX \div MDEG_PER_DEG) >>
    ELSE IF angle_next < 0 - MDEG_MAX
    THEN << Add32(angle_next, MDEG_MAX), Sub32(angle_offset, MDEG_MAX \div MDEG_PER_DEG) >>
    ELSE << angle_next, angle_offset >>

\* a faulty update that adds the feedback to the voltage before the stall
\* state is updated
update_stall_after_feedback(m, o, time, count, actuation, voltage0) ==
    LET feedback_voltage == FeedbackVoltage(m, o, count)
        voltage == Add32(voltage0, feedback_voltage)
        o1 == update_stall_state(o, time, voltage, feedback_voltage)
        torque == FrictionTorque(m, o)
        norm == NormalizeAngle(AngleNext(m, o, voltage, torque), o.angle_offset)
    IN  [o1 EXCEPT !.angle = norm[1],
                   !.angle_offset = norm[2],
                   !.speed = SpeedNext(m, o, voltage, torque),
                   !.current = CurrentNext(m, o, voltage, torque)]

\* pbio_observer_update.  The actuation argument is read by an empty branch
\* only (observer.c lines 86-88) and has no effect on the result.
pbio_observer_update(m, o, time, count, actuation, voltage0) ==
    LET feedback_voltage == FeedbackVoltage(m, o, count)
        o1 == update_stall_state(o, time, voltage0, feedback_voltage)
        voltage == Add32(voltage0, feedback_voltage)
        torque == FrictionTorque(m, o)
        norm == NormalizeAngle(AngleNext(m, o, voltage, torque), o.angle_offset)
    IN  [o1 EXCEPT !.angle = norm[1],
                   !.angle_offset = norm[2],
                   !.speed = SpeedNext(m, o, voltage, torque),
                   !.current = CurrentNext(m, o, voltage, torque)]

\* pbio_observer_is_stalled: the returned flag
pbio_observer_is_stalled(o, time) ==
    o.stalled /\ Sub32(time, o.stall_start) > STALL_TIME_MS * US_PER_MS

\* a faulty stall duration that is also written when the result is false
stall_duration_always_written(o, time) ==
    CDiv(Sub32(time, o.stall_start), US_PER_MS)

\* pbio_observer_is_stalled: the stall duration written to *stall_duration
StallDuration(o, time) ==
    IF pbio_observer_is_stalled(o, time)
    THEN CDiv(Sub32(time, o.stall_start), US_PER_MS)
    ELSE 0

-----------------------------------------------------------------------------
(* Bounds and input sets of the observer specification *)

\* number of observer calls (reset or update) in one behaviour
MaxTicks == 3

\* time between two modelled updates, in microseconds.  The code reads the
\* time only to stamp stall_start, so one step stands for a run of ticks
\* with the same inputs.
TickSteps == {120000}

\* measured count relative to the estimated count, in degrees: far behind
\* (the residual times the gain leaves int32_t), behind, equal, ahead
CountDeltas == {-3000, -120, 0, 120}

\* applied voltages, mV
Voltages == {-9000, 0, 9000}

\* counts passed to reset
ResetCounts == {-721, 360}

\* models the observer is run with
RunModels == {model_technic_s_angular, model_technic_l_angular}

\* observer states a behaviour starts from: at rest after reset(0), cruising
\* forward just inside the upper end of the millidegree range, and cruising
\* backward just inside the lower end after one earlier shift of the offset
StartStates ==
    { [angle_offset |-> 0, angle |-> 0, speed |-> 0, current |-> 0,
       stalled |-> FALSE, stall_start |-> 0],
      [angle_offset |-> 0, angle |-> MDEG_MAX - 100, speed |-> 500000, current |-> 0,
       stalled |-> FALSE, stall_start |-> 0],
      [angle_offset |-> 0 - MDEG_MAX \div MDEG_PER_DEG,
       angle |-> 100 - MDEG_MAX, speed |-> -500000, current |-> 0,
       stalled |-> FALSE, stall_start |-> 0] }

\* times at which the stall flag is queried, relative to the last call
QueryTimes == {clock, Add32(clock, 90000), Add32(clock, 250000), MaxInt32, MinInt32}

-----------------------------------------------------------------------------
(* servo.c: the servo table, the drivers it calls, the control module *)

\* size of the servo table (servo.c line 103)
PBDRV_CONFIG_NUM_MOTOR_CONTROLLER == 1

\* first motor port: PBIO_PORT_A, the character 'A' (servo.c line 136)
PBDRV_CONFIG_FIRST_MOTOR_PORT == 65

PBDRV_CONFIG_LAST_MOTOR_PORT ==
    PBDRV_CONFIG_FIRST_MOTOR_PORT + PBDRV_CONFIG_NUM_MOTOR_CONTROLLER - 1

\* indices of the servo table
Idx == 0 .. (PBDRV_CONFIG_NUM_MOTOR_CONTROLLER - 1)

\* ports a caller passes to pbio_servo_get: every motor port and one
\* port on either side of the range
Ports == (PBDRV_CONFIG_FIRST_MOTOR_PORT - 1) .. (PBDRV_CONFIG_LAST_MOTOR_PORT + 1)

\* error codes a driver call returns when it fails
Errors == {"IO", "NO_DEV"}

\* error codes injected into the control tick, whose caller only compares
\* the code with PBIO_SUCCESS
TickErrors == {"IO"}

\* type ids with a servo model and settings (servo_settings.c lines 248-324)
ServoTypeIds ==
    { "EV3_MEDIUM_MOTOR", "EV3_LARGE_MOTOR", "INTERACTIVE_MOTOR", "MOVE_HUB_MOTOR",
      "TECHNIC_L_MOTOR", "TECHNIC_XL_MOTOR", "SPIKE_S_MOTOR",
      "TECHNIC_L_ANGULAR_MOTOR", "SPIKE_L_MOTOR",
      "TECHNIC_M_ANGULAR_MOTOR", "SPIKE_M_MOTOR" }

\* type ids the DC driver reports in the model: two servo motors,
\* and the id of no device, which is no servo type
ReportedIds == {"EV3_LARGE_MOTOR", "INTERACTIVE_MOTOR", "NONE"}

\* pbio_actuation_t
ActuationTypes == {"COAST", "BRAKE", "HOLD", "DUTY"}

\* the actuations a command may ask for when it ends
AfterStops == {"COAST", "BRAKE", "HOLD"}

\* the gear ratios the callers of pbio_servo_get pass (whole numbers)
GearRatios == {2}

\* the settings blocks of servo.c lines 22-84, transcribed verbatim
settings_servo_ev3_medium ==
    [ max_rate |-> 2000,
      abs_acceleration |-> 4000,
      rate_tolerance |-> 10,
      count_tolerance |-> 6,
      stall_rate_limit |-> 4,
      stall_time |-> 200 * US_PER_MS,
      pid_kp |-> 500,
      pid_ki |-> 800,
      pid_kd |-> 3,
      integral_range |-> 45,
      integral_rate |-> 6,
      max_control |-> 10000,
      control_offset |-> 1500 ]

settings_servo_ev3_large ==
    [ max_rate |-> 1600,
      abs_acceleration |-> 3200,
      rate_tolerance |-> 10,
      count_tolerance |-> 6,
      stall_rate_limit |-> 4,
      stall_time |-> 200 * US_PER_MS,
      pid_kp |-> 400,
      pid_ki |-> 1500,
      pid_kd |-> 5,
      integral_range |-> 45,
      integral_rate |-> 6,
      max_control |-> 10000,
      control_offset |-> 0 ]

settings_servo_move_hub ==
    [ max_rate |-> 1500,
      abs_acceleration |-> 3000,
      rate_tolerance |-> 5,
      count_tolerance |-> 3,
      stall_rate_limit |-> 2,
      stall_time |-> 200 * US_PER_MS,
      pid_kp |-> 400,
      pid_ki |-> 600,
      pid_kd |-> 5,
      integral_range |-> 45,
      integral_rate |-> 3,
      max_control |-> 10000,
      control_offset |-> 0 ]

settings_servo_default ==
    [ max_rate |-> 1000,
      abs_acceleration |-> 2000,
      rate_tolerance |-> 5,
      count_tolerance |-> 3,
      stall_rate_limit |-> 2,
      stall_time |-> 200,
      pid_kp |-> 200,
      pid_ki |-> 100,
      pid_kd |-> 0,
      integral_range |-> 45,
      integral_rate |-> 3,
      max_control |-> 10000,
      control_offset |-> 0 ]

\* the settings block of a name
SettingsBlock(name) ==
    CASE name = "settings_servo_ev3_medium" -> settings_servo_ev3_medium
      [] name = "settings_servo_ev3_large" -> settings_servo_ev3_large
      [] name = "settings_servo_move_hub" -> settings_servo_move_hub
      [] name = "settings_servo_default" -> settings_servo_default

\* load_servo_settings (servo.c lines 86-101): the settings block copied
\* into the servo for a type id; every id without a case gets the default
load_servo_settings(id) ==
    CASE id = "EV3_MEDIUM_MOTOR" -> "settings_servo_ev3_medium"
      [] id = "EV3_LARGE_MOTOR" -> "settings_servo_ev3_large"
      [] id = "MOVE_HUB_MOTOR" -> "settings_servo_move_hub"
      [] OTHER -> "settings_servo_default"

\* pbio_control_t while control is off.  pbio_control_stop sets the type to
\* NONE; the other fields are not read again before a start overwrites them.
\* Of the trajectory the model keeps the start time t0 and the count the
\* reference ends at (target).
ControlNone ==
    [type |-> "NONE", func |-> "none", after_stop |-> "COAST", on_target |-> FALSE,
     t0 |-> 0, target |-> 0]

\* pbio_control_stop
pbio_control_stop(ctl) == ControlNone

\* pbio_control_start_timed_control: speed over time, from time_now on, with
\* the completion predicate func (never, time or stalled)
pbio_control_start_timed_control(ctl, time_now, func, after_stop) ==
    [type |-> "TIMED", func |-> func, after_stop |-> after_stop, on_target |-> FALSE,
     t0 |-> time_now, target |-> 0]

\* pbio_control_start_angle_control: run to a target count, from time_now on,
\* complete on position and speed
pbio_control_start_angle_control(ctl, time_now, target_count, after_stop) ==
    [type |-> "ANGLE", func |-> "angle", after_stop |-> after_stop, on_target |-> FALSE,
     t0 |-> time_now, target |-> target_count]

\* pbio_control_start_relative_angle_control: run to count_now plus a
\* relative count
pbio_control_start_relative_angle_control(ctl, time_now, count_now, relative, after_stop) ==
    pbio_control_start_angle_control(ctl, time_now, Add32(count_now, relative), after_stop)

\* pbio_control_start_hold_control: angle control with a stationary
\* trajectory pinned at target_count, on target from the start
pbio_control_start_hold_control(ctl, time_now, target_count) ==
    [type |-> "ANGLE", func |-> "hold", after_stop |-> "HOLD", on_target |-> TRUE,
     t0 |-> time_now, target |-> target_count]

\* the completion predicate of a control: never for run, always for a hold,
\* otherwise what the time, the stall flag or the position decide (raw)
OnTarget(ctl, raw) ==
    CASE ctl.func = "never" -> FALSE
      [] ctl.func = "hold" -> TRUE
      [] OTHER -> raw

\* control_update: the control law of one tick of an active control.
\* on_target is what the completion predicate returns in this tick.  A
\* finished command with a passive after_stop stops control and emits that
\* actuation; a finished timed command with HOLD emits HOLD; everything else
\* emits a duty.  Result: the control state and the actuation.
control_update(ctl, on_target) ==
    LET done == OnTarget(ctl, on_target)
    IN  IF done /\ ctl.after_stop \in {"COAST", "BRAKE"}
        THEN [ctl |-> pbio_control_stop(ctl), actuation |-> ctl.after_stop]
        ELSE IF done /\ ctl.type = "TIMED"
        THEN [ctl |-> [ctl EXCEPT !.on_target = TRUE], actuation |-> "HOLD"]
        ELSE [ctl |-> [ctl EXCEPT !.on_target = done], actuation |-> "DUTY"]

\* a servo of the table before any call: static storage, zero initialised
\* (acquired: the dcmotor and tacho handles and the settings are set, which
\* they are from the first successful setup on)
ServoZero ==
    [port |-> 0, connected |-> FALSE, acquired |-> FALSE, counts_per_unit |-> 0,
     control |-> ControlNone]

\* the caller holds this servo from a successful pbio_servo_get
Acquired(srv) == srv.acquired

\* what an operation did to one servo: the servo, the last command its DC
\* driver received, the error code returned, the driver calls made in order
Result(srv, d, ret, calls) == [srv |-> srv, dc |-> d, ret |-> ret, calls |-> calls]

\* the outcome of the driver calls of one operation on one servo: the call
\* that fails (if any) with its error code, for a control tick what
\* the completion predicate returns, and the values the clock and the tacho
\* return to it: the time (now), the count, the angle in user units, and the
\* absolute angle of the encoder
NoFail ==
    [fail |-> "none", err |-> "SUCCESS", on_target |-> FALSE,
     now |-> 0, count |-> 0, angle |-> 0, abs |-> 0]

Fails(points, errs) == { [NoFail EXCEPT !.fail = f, !.err = e] : f \in points, e \in errs }

\* a faulty validation that accepts every port from the first one on
port_not_below_first(port) == ~(port < PBDRV_CONFIG_FIRST_MOTOR_PORT)

\* validation of the port (servo.c line 136)
PortValid(port) ==
    ~(port < PBDRV_CONFIG_FIRST_MOTOR_PORT \/ port > PBDRV_CONFIG_LAST_MOTOR_PORT)

\* pbio_control_user_to_counts: user units (degrees at the output) to counts
pbio_control_user_to_counts(srv, user) == Mul32(user, srv.counts_per_unit)

\* pbio_control_counts_to_user: counts to user units, truncating
pbio_control_counts_to_user(srv, count) == CDiv(count, srv.counts_per_unit)

\* pbio_servo_setup (servo.c lines 105-132); id is the type id the DC
\* driver reports.  pbio_dcmotor_get coasts the motor it hands out.
pbio_servo_setup(srv, d, id, gear_ratio, o) ==
    IF o.fail = "dcmotor_get"
    THEN Result(srv, d, o.err, <<"pbio_dcmotor_get">>)
    ELSE IF o.fail = "tacho_get"
    THEN Result(srv, "coast", o.err, <<"pbio_dcmotor_get", "pbio_tacho_get">>)
    ELSE Result([srv EXCEPT !.control = pbio_control_stop(srv.control),
                            !.acquired = TRUE,
                            !.counts_per_unit =
                                Mul32(PBDRV_CONFIG_COUNTER_COUNTS_PER_DEGREE, gear_ratio)],
                "coast", "SUCCESS", <<"pbio_dcmotor_get", "pbio_tacho_get">>)

\* a faulty pbio_servo_get that marks the servo disconnected when the setup
\* fails
get_disconnects_on_failure(srv, d, port, id, gear_ratio, o) ==
    LET r == pbio_servo_setup([srv EXCEPT !.port = port], d, id, gear_ratio, o)
    IN  [r EXCEPT !.srv.connected = (r.ret = "SUCCESS")]

\* pbio_servo_get after the port validation (servo.c lines 139-148)
pbio_servo_get(srv, d, port, id, gear_ratio, o) ==
    LET r == pbio_servo_setup([srv EXCEPT !.port = port], d, id, gear_ratio, o)
    IN  IF r.ret = "SUCCESS"
        THEN [r EXCEPT !.srv.connected = TRUE]
        ELSE r

\* a faulty pbio_servo_actuate without the error handling of lines 234-240
actuate_without_cleanup(srv, d, actuation, control, o) ==
    LET call == CASE actuation = "COAST" -> "pbio_dcmotor_coast"
                  [] actuation = "BRAKE" -> "pbio_dcmotor_brake"
                  [] actuation = "HOLD" -> "pbio_control_start_hold_control"
                  [] actuation = "DUTY" -> "pbio_dcmotor_set_duty_cycle_sys"
    IN  IF o.fail = "actuate"
        THEN Result(srv, d, o.err, <<call>>)
        ELSE Result(IF actuation = "HOLD"
                    THEN [srv EXCEPT !.control = pbio_control_start_hold_control(srv.control, o.now, control)]
                    ELSE srv,
                    CASE actuation = "COAST" -> "coast"
                      [] actuation = "BRAKE" -> "brake"
                      [] actuation = "HOLD" -> d
                      [] actuation = "DUTY" -> "duty",
                    "SUCCESS", <<call>>)

\* pbio_servo_actuate (servo.c lines 212-242); control is the payload: the
\* duty, or the count to hold.  When the call made for the actuation fails,
\* control is stopped and the low-level coast of the port is called, whose
\* result is not read.
pbio_servo_actuate(srv, d, actuation, control, o) ==
    LET call == CASE actuation = "COAST" -> "pbio_dcmotor_coast"
                  [] actuation = "BRAKE" -> "pbio_dcmotor_brake"
                  [] actuation = "HOLD" -> "pbio_control_start_hold_control"
                  [] actuation = "DUTY" -> "pbio_dcmotor_set_duty_cycle_sys"
    IN  IF o.fail = "actuate"
        THEN Result([srv EXCEPT !.control = pbio_control_stop(srv.control)],
                    "coast", o.err, <<call, "pbdrv_motor_coast">>)
        ELSE Result(IF actuation = "HOLD"
                    THEN [srv EXCEPT !.control = pbio_control_start_hold_control(srv.control, o.now, control)]
                    ELSE srv,
                    CASE actuation = "COAST" -> "coast"
                      [] actuation = "BRAKE" -> "brake"
                      [] actuation = "HOLD" -> d
                      [] actuation = "DUTY" -> "duty",
                    "SUCCESS", <<call>>)

\* pbio_servo_log_update (servo.c lines 245-285) as the last call of r
LogUpdate(r, o) ==
    [r EXCEPT !.ret = IF o.fail = "log" THEN o.err ELSE "SUCCESS",
              !.calls = Append(r.calls, "pbio_logger_update")]

\* a faulty control update that coasts a passive motor in every tick
control_update_coasts_passive(srv, d, o) ==
    LET read == <<"pbio_tacho_get_count", "pbio_tacho_get_rate">>
    IN  IF o.fail = "count" THEN Result(srv, d, o.err, <<"pbio_tacho_get_count">>)
        ELSE IF o.fail = "rate" THEN Result(srv, d, o.err, read)
        ELSE LET law == IF srv.control.type = "NONE"
                        THEN [ctl |-> srv.control, actuation |-> "COAST"]
                        ELSE control_update(srv.control, o.on_target)
                 act == pbio_servo_actuate([srv EXCEPT !.control = law.ctl], d,
                                           law.actuation, o.count, o)
                 r == [act EXCEPT !.calls = read \o act.calls]
             IN  IF r.ret # "SUCCESS" THEN r ELSE LogUpdate(r, o)

\* pbio_servo_control_update (servo.c lines 287-324)
pbio_servo_control_update(srv, d, o) ==
    LET read == <<"pbio_tacho_get_count", "pbio_tacho_get_rate">>
    IN  IF o.fail = "count" THEN Result(srv, d, o.err, <<"pbio_tacho_get_count">>)
        ELSE IF o.fail = "rate" THEN Result(srv, d, o.err, read)
        ELSE IF srv.control.type = "NONE"
        THEN IF o.fail = "dcstate"
             THEN Result(srv, d, o.err, Append(read, "pbio_dcmotor_get_state"))
             ELSE LogUpdate(Result(srv, d, "SUCCESS", Append(read, "pbio_dcmotor_get_state")), o)
        ELSE LET law == control_update(srv.control, o.on_target)
                 act == pbio_servo_actuate([srv EXCEPT !.control = law.ctl], d,
                                           law.actuation, o.count, o)
                 r == [act EXCEPT !.calls = read \o act.calls]
             IN  IF r.ret # "SUCCESS" THEN r ELSE LogUpdate(r, o)

\* the outcomes that differ for one control update of srv
UpdateOutcomes(srv) ==
    IF srv.control.type = "NONE"
    THEN {NoFail} \cup Fails({"count", "rate", "dcstate", "log"}, TickErrors)
    ELSE Fails({"count", "rate"}, TickErrors)
         \cup { [NoFail EXCEPT !.fail = f, !.err = e, !.on_target = t] :
                    f \in {"actuate", "log"}, e \in TickErrors,
                    t \in { OnTarget(srv.control, raw) : raw \in BOOLEAN } }
         \cup { [NoFail EXCEPT !.on_target = t] :
                    t \in { OnTarget(srv.control, raw) : raw \in BOOLEAN } }

\* a faulty loop body that never clears the connected flag
poll_keeps_connected(srv, d, o) ==
    IF ~srv.connected
    THEN Result(srv, d, "SKIPPED", <<>>)
    ELSE pbio_servo_control_update(srv, d, o)

\* the body of the loop of _pbio_servo_poll for one servo (servo.c lines
\* 469-475): a disconnected servo is skipped, a connected one is updated and
\* stays connected exactly when the update succeeds
PollServo(srv, d, o) ==
    IF ~srv.connected
    THEN Result(srv, d, "SKIPPED", <<>>)
    ELSE LET r == pbio_servo_control_update(srv, d, o)
         IN  [r EXCEPT !.srv.connected = (r.ret = "SUCCESS")]

\* a faulty pbio_servo_stop that does not stop control before a passive
\* actuation
stop_keeps_control(srv, d, after_stop, o) ==
    IF after_stop = "HOLD"
    THEN IF o.fail = "count"
         THEN Result(srv, d, o.err, <<"pbio_tacho_get_count">>)
         ELSE LET act == pbio_servo_actuate(srv, d, after_stop, o.count, o)
              IN  [act EXCEPT !.calls = <<"pbio_tacho_get_count">> \o act.calls]
    ELSE pbio_servo_actuate(srv, d, after_stop, 0, o)

\* pbio_servo_stop (servo.c lines 333-352)
pbio_servo_stop(srv, d, after_stop, o) ==
    IF after_stop = "HOLD"
    THEN IF o.fail = "count"
         THEN Result(srv, d, o.err, <<"pbio_tacho_get_count">>)
         ELSE LET act == pbio_servo_actuate(srv, d, after_stop, o.count, o)
              IN  [act EXCEPT !.calls = <<"pbio_tacho_get_count">> \o act.calls]
    ELSE pbio_servo_actuate([srv EXCEPT !.control = pbio_control_stop(srv.control)],
                            d, after_stop, 0, o)

\* a faulty run command that stops control and coasts when a tacho read
\* fails
run_command_stops_on_error(srv, d, ctl, o) ==
    LET read == <<"pbio_tacho_get_count", "pbio_tacho_get_rate">>
        off == [srv EXCEPT !.control = pbio_control_stop(srv.control)]
    IN  IF o.fail = "count"
        THEN Result(off, "coast", o.err, <<"pbio_tacho_get_count", "pbdrv_motor_coast">>)
        ELSE IF o.fail = "rate"
        THEN Result(off, "coast", o.err, Append(read, "pbdrv_motor_coast"))
        ELSE Result([srv EXCEPT !.control = ctl], d, "SUCCESS", read)

\* a faulty run command that leaves an active maneuver in place
run_command_keeps_active(srv, d, ctl, o) ==
    LET read == <<"pbio_tacho_get_count", "pbio_tacho_get_rate">>
    IN  IF o.fail = "count" THEN Result(srv, d, o.err, <<"pbio_tacho_get_count">>)
        ELSE IF o.fail = "rate" THEN Result(srv, d, o.err, read)
        ELSE Result(IF srv.control.type = "NONE" THEN [srv EXCEPT !.control = ctl] ELSE srv,
                    d, "SUCCESS", read)

\* servo_get_state followed by the start of a control (servo.c lines
\* 194-209 and the tail of every run command)
RunCommand(srv, d, ctl, o) ==
    LET read == <<"pbio_tacho_get_count", "pbio_tacho_get_rate">>
    IN  IF o.fail = "count" THEN Result(srv, d, o.err, <<"pbio_tacho_get_count">>)
        ELSE IF o.fail = "rate" THEN Result(srv, d, o.err, read)
        ELSE Result([srv EXCEPT !.control = ctl], d, "SUCCESS", read)

\* a faulty pbio_servo_run that completes on time
run_with_time_predicate(srv, d, o) ==
    RunCommand(srv, d,
               pbio_control_start_timed_control(srv.control, o.now, "time", "COAST"), o)

\* pbio_servo_run (servo.c lines 354-370)
pbio_servo_run(srv, d, o) ==
    RunCommand(srv, d,
               pbio_control_start_timed_control(srv.control, o.now, "never", "COAST"), o)

\* pbio_servo_run_time (servo.c lines 372-388)
pbio_servo_run_time(srv, d, after_stop, o) ==
    RunCommand(srv, d,
               pbio_control_start_timed_control(srv.control, o.now, "time", after_stop), o)

\* pbio_servo_run_until_stalled (servo.c lines 390-406)
pbio_servo_run_until_stalled(srv, d, after_stop, o) ==
    RunCommand(srv, d,
               pbio_control_start_timed_control(srv.control, o.now, "stalled", after_stop), o)

\* pbio_servo_run_target (servo.c lines 408-424)
pbio_servo_run_target(srv, d, target, after_stop, o) ==
    RunCommand(srv, d,
               pbio_control_start_angle_control(srv.control, o.now,
                   pbio_control_user_to_counts(srv, target), after_stop), o)

\* pbio_servo_run_angle (servo.c lines 426-443)
pbio_servo_run_angle(srv, d, angle, after_stop, o) ==
    RunCommand(srv, d,
               pbio_control_start_relative_angle_control(srv.control, o.now, o.count,
                   pbio_control_user_to_counts(srv, angle), after_stop), o)

\* pbio_servo_track_target (servo.c lines 445-452): no driver is called
pbio_servo_track_target(srv, d, target, o) ==
    Result([srv EXCEPT !.control =
                pbio_control_start_hold_control(srv.control, o.now,
                    pbio_control_user_to_counts(srv, target))],
           d, "SUCCESS", <<>>)

\* a faulty pbio_servo_set_duty_cycle that leaves control as it is
set_duty_keeps_control(srv, d, o) ==
    IF o.fail = "set_duty"
    THEN Result(srv, d, o.err, <<"pbio_dcmotor_set_duty_cycle_usr">>)
    ELSE Result(srv, "duty_usr", "SUCCESS", <<"pbio_dcmotor_set_duty_cycle_usr">>)

\* pbio_servo_set_duty_cycle (servo.c lines 328-331): control is stopped,
\* then the duty goes to the DC driver, whose result is returned
pbio_servo_set_duty_cycle(srv, d, o) ==
    LET off == [srv EXCEPT !.control = pbio_control_stop(srv.control)]
    IN  IF o.fail = "set_duty"
        THEN Result(off, d, o.err, <<"pbio_dcmotor_set_duty_cycle_usr">>)
        ELSE Result(off, "duty_usr", "SUCCESS", <<"pbio_dcmotor_set_duty_cycle_usr">>)

\* pbio_tacho_reset_angle: the angle the tacho reports after the reset is
\* the absolute angle of the encoder or the value given
pbio_tacho_reset_angle(reset_angle, reset_to_abs, abs) ==
    IF reset_to_abs THEN abs ELSE reset_angle

\* the servo holds a position (servo.c line 155)
Holding(srv) == srv.control.type = "ANGLE" /\ srv.control.on_target

\* a faulty pbio_servo_reset_angle that resets the tacho under an active
\* control without stopping it
reset_angle_without_stop(srv, d, reset_angle, reset_to_abs, o) ==
    IF Holding(srv)
    THEN IF o.fail = "get_angle"
         THEN Result(srv, d, o.err, <<"pbio_tacho_get_angle">>)
         ELSE IF o.fail = "reset"
         THEN Result(srv, d, o.err, <<"pbio_tacho_get_angle", "pbio_tacho_reset_angle">>)
         ELSE LET target_old == pbio_control_counts_to_user(srv, srv.control.target)
                  new_target == Add32(reset_angle, Sub32(target_old, o.angle))
                  r == pbio_servo_track_target(srv, d, new_target, o)
              IN  [r EXCEPT !.calls = <<"pbio_tacho_get_angle", "pbio_tacho_reset_angle">>]
    ELSE Result(srv, d, IF o.fail = "reset" THEN o.err ELSE "SUCCESS",
                <<"pbio_tacho_reset_angle">>)

\* pbio_servo_reset_angle (servo.c lines 151-191).  While holding, the
\* target moves with the angle: the old target and the old angle are read,
\* the tacho is reset, and the new target is tracked.  With control off only
\* the tacho is reset.  Otherwise the servo is stopped with COAST first.
pbio_servo_reset_angle(srv, d, reset_angle, reset_to_abs, o) ==
    IF Holding(srv)
    THEN IF o.fail = "get_angle"
         THEN Result(srv, d, o.err, <<"pbio_tacho_get_angle">>)
         ELSE IF o.fail = "reset"
         THEN Result(srv, d, o.err, <<"pbio_tacho_get_angle", "pbio_tacho_reset_angle">>)
         ELSE LET target_old == pbio_control_counts_to_user(srv, srv.control.target)
                  new_target == Add32(reset_angle, Sub32(target_old, o.angle))
                  r == pbio_servo_track_target(srv, d, new_target, o)
              IN  [r EXCEPT !.calls = <<"pbio_tacho_get_angle", "pbio_tacho_reset_angle">>]
    ELSE IF srv.control.type = "NONE"
    THEN Result(srv, d, IF o.fail = "reset" THEN o.err ELSE "SUCCESS",
                <<"pbio_tacho_reset_angle">>)
    ELSE LET stop == pbio_servo_stop(srv, d, "COAST", o)
         IN  IF stop.ret # "SUCCESS"
             THEN stop
             ELSE [stop EXCEPT !.ret = IF o.fail = "reset" THEN o.err ELSE "SUCCESS",
                               !.calls = Append(stop.calls, "pbio_tacho_reset_angle")]

-----------------------------------------------------------------------------
(* Servo specification *)

\* f with f[i] replaced by v; an index outside the table changes nothing
Upd(f, i, v) == [j \in Idx |-> IF j = i THEN v ELSE f[j]]

\* the record of the last servo operation: its name, the table index it
\* addressed (-1: none), its port, actuation and id arguments, the driver
\* call that failed in it and the error code of that call, the settings
\* block a successful setup loaded, the error code the operation returned
\* and the driver calls it made, in order
Op(name, i, port, arg, id, o, ret, calls) ==
    [op |-> name, i |-> i, port |-> port, arg |-> arg, id |-> id,
     fail |-> o.fail, err |-> o.err,
     settings |-> IF name = "get" /\ ret = "SUCCESS" THEN load_servo_settings(id) ELSE "",
     ret |-> ret, calls |-> calls]

\* no control update is between its control law and its actuation
NoPending ==
    [active |-> FALSE, actuation |-> "COAST", control |-> 0, o |-> NoFail,
     pre |-> <<>>, cmds |-> <<>>]

\* no tick is running
Idle == polling = PBDRV_CONFIG_NUM_MOTOR_CONTROLLER

ServoInit ==
    /\ servo = [i \in Idx |-> ServoZero]
    /\ dc = [i \in Idx |-> "coast"]
    /\ polling = PBDRV_CONFIG_NUM_MOTOR_CONTROLLER
    /\ pending = NoPending
    /\ settings = SettingsZero
    /\ last = Op("none", -1, 0, "", "", NoFail, "NA", <<>>)

\* the state left by one operation on servo i alone
Apply(name, i, port, arg, id, o, r) ==
    /\ servo' = Upd(servo, i, r.srv)
    /\ dc' = Upd(dc, i, r.dc)
    /\ last' = Op(name, i, port, arg, id, o, r.ret, r.calls)

\* a call of pbio_servo_get (servo.c lines 134-149)
ServoGet ==
    \E port \in Ports, id \in ReportedIds, gear_ratio \in GearRatios,
       o \in {NoFail} \cup Fails({"dcmotor_get", "tacho_get"}, Errors) :
        LET i == port - PBDRV_CONFIG_FIRST_MOTOR_PORT
        IN  /\ Idle
            /\ o.fail # "none" => id = "NONE"
            /\ IF ~PortValid(port)
               THEN /\ id = "NONE" /\ o = NoFail
                    /\ last' = Op("get", -1, port, "", "", NoFail, "INVALID_PORT", <<>>)
                    /\ UNCHANGED <<servo, dc>>
               ELSE Apply("get", i, port, "", IF o.fail # "none" THEN "" ELSE id, o,
                          pbio_servo_get(IF i \in Idx THEN servo[i] ELSE ServoZero,
                                         IF i \in Idx THEN dc[i] ELSE "coast",
                                         port, id, gear_ratio, o))
            /\ UNCHANGED <<polling, pending, settings, obsvars>>

\* one iteration of the loop of _pbio_servo_poll (servo.c lines 465-477).
\* A tick starts at index 0 when none is running and services the servos in
\* index order; no other operation runs before its last iteration is done.
ServoPoll ==
    LET i == IF Idle THEN 0 ELSE polling
    IN  \E o \in (IF servo[i].connected THEN UpdateOutcomes(servo[i]) ELSE {NoFail}) :
            /\ Apply("poll", i, 0, "", "", [o EXCEPT !.on_target = FALSE],
                     PollServo(servo[i], dc[i], o))
            /\ polling' = i + 1
            /\ UNCHANGED <<pending, settings, obsvars>>

\* a call of pbio_servo_stop on a servo the caller got from pbio_servo_get
ServoStop ==
    \E i \in Idx, after_stop \in AfterStops,
       o \in {NoFail} \cup Fails({"count", "actuate"}, Errors) :
        /\ Idle
        /\ Acquired(servo[i])
        /\ Apply("stop", i, 0, after_stop, "", o,
                 pbio_servo_stop(servo[i], dc[i], after_stop, o))
        /\ UNCHANGED <<polling, pending, settings, obsvars>>

\* a call of pbio_servo_run
ServoRun ==
    \E i \in Idx, o \in {NoFail} \cup Fails({"count", "rate"}, Errors) :
        /\ Idle
        /\ Acquired(servo[i])
        /\ Apply("run", i, 0, "", "", o, pbio_servo_run(servo[i], dc[i], o))
        /\ UNCHANGED <<polling, pending, settings, obsvars>>

\* a call of pbio_servo_run_target
ServoRunTarget ==
    \E i \in Idx, after_stop \in AfterStops,
       o \in {NoFail} \cup Fails({"count", "rate"}, Errors) :
        /\ Idle
        /\ Acquired(servo[i])
        /\ Apply("run_target", i, 0, after_stop, "", o,
                 pbio_servo_run_target(servo[i], dc[i], 0, after_stop, o))
        /\ UNCHANGED <<polling, pending, settings, obsvars>>

Init ==
    /\ ServoInit
    /\ obs = [angle_offset |-> 0, angle |-> 0, speed |-> 0, current |-> 0,
              stalled |-> FALSE, stall_start |-> 0]
    /\ model = model_technic_l
    /\ clock = 0
    /\ nticks = 0
    /\ hist = <<>>
    /\ g = [op |-> "init"]

Next == ServoGet \/ ServoPoll \/ ServoStop \/ ServoRun \/ ServoRunTarget

Spec == Init /\ [][Next]_vars

-----------------------------------------------------------------------------
(* Command specification: every user command and the tick, on the servo of
   the first port *)

\* the values clock_usecs returns to a command
Times == {1, 2}

\* the counts the tacho returns to a command or a tick
Counts == {10, 60}

\* the target and angle arguments of the run commands, in user units
Targets == {0, 30}

\* the reset_angle arguments, the absolute angles of the encoder, and the
\* differences between the hold target and the angle the tacho returns
ResetAngles == {90}
AbsAngles == {45}
HoldErrors == {0, 2}

\* the error code of a failing driver call
CmdErrors == {"IO"}

\* the record of the last operation, with the type, the on_target flag and
\* the start time of the control before it (was), the time and the count it
\* read, and for pbio_servo_reset_angle the count the reference was at and
\* the angle read before the reset and the angle of the tacho after it
CmdOp(name, arg, o, r, angle_new) ==
    [op |-> name, i |-> 0, port |-> 0, arg |-> arg, id |-> "",
     fail |-> o.fail, err |-> o.err, settings |-> "",
     ret |-> r.ret, calls |-> r.calls,
     was |-> [type |-> servo[0].control.type, on_target |-> servo[0].control.on_target,
              t0 |-> servo[0].control.t0,
              target |-> IF name = "reset_angle" THEN servo[0].control.target ELSE 0],
     now |-> o.now, count |-> o.count,
     angle_old |-> o.angle, angle_new |-> angle_new]

CmdApply(name, arg, o, r, angle_new) ==
    /\ servo' = Upd(servo, 0, r.srv)
    /\ dc' = Upd(dc, 0, r.dc)
    /\ last' = CmdOp(name, arg, o, r, angle_new)
    /\ UNCHANGED <<polling, pending, settings, obsvars>>

\* the outcomes of servo_get_state followed by a start of control at the
\* time and count read
RunOutcomes ==
    { [NoFail EXCEPT !.now = t, !.count = c] : t \in Times, c \in Counts }
    \cup Fails({"count", "rate"}, CmdErrors)

\* pbio_servo_get for the first port
CmdGet ==
    \E gear_ratio \in GearRatios, o \in {NoFail} \cup Fails({"tacho_get"}, CmdErrors) :
        /\ Idle
        /\ CmdApply("get", "", o,
                    pbio_servo_get(servo[0], dc[0], PBDRV_CONFIG_FIRST_MOTOR_PORT,
                                   "NONE", gear_ratio, o), 0)

\* _pbio_servo_poll while the servo of the first port is the only one
\* connected: the loop skips every other servo
CmdTick ==
    \E u \in UpdateOutcomes(servo[0]), t \in Times, c \in Counts :
        LET o == IF u.fail \in {"none", "log"} /\ u.on_target /\ servo[0].control.type = "TIMED"
                    /\ servo[0].control.after_stop = "HOLD"
                 THEN [u EXCEPT !.now = t, !.count = c]
                 ELSE u
        IN  /\ servo[0].connected
            /\ (o = u) => (t = 1 /\ c = 10)
            /\ CmdApply("poll", "", o, PollServo(servo[0], dc[0], o), 0)

CmdStop ==
    \E after_stop \in AfterStops, t \in Times, c \in Counts,
       u \in {NoFail} \cup Fails({"count", "actuate"}, CmdErrors) :
        LET o == IF u.fail = "none" /\ after_stop = "HOLD"
                 THEN [u EXCEPT !.now = t, !.count = c]
                 ELSE u
        IN  /\ Acquired(servo[0])
            /\ (o = u) => (t = 1 /\ c = 10)
            /\ u.fail = "count" => after_stop = "HOLD"
            /\ CmdApply("stop", after_stop, o,
                        pbio_servo_stop(servo[0], dc[0], after_stop, o), 0)

CmdSetDuty ==
    \E o \in {NoFail} \cup Fails({"set_duty"}, CmdErrors) :
        /\ Acquired(servo[0])
        /\ CmdApply("set_duty", "", o, pbio_servo_set_duty_cycle(servo[0], dc[0], o), 0)

CmdRun ==
    \E o \in RunOutcomes :
        /\ Acquired(servo[0])
        /\ o.fail = "none" => o.count = 10
        /\ CmdApply("run", "", o, pbio_servo_run(servo[0], dc[0], o), 0)

CmdRunTime ==
    \E after_stop \in AfterStops, o \in RunOutcomes :
        /\ Acquired(servo[0])
        /\ o.fail = "none" => o.count = 10
        /\ CmdApply("run_time", after_stop, o,
                    pbio_servo_run_time(servo[0], dc[0], after_stop, o), 0)

CmdRunUntilStalled ==
    \E after_stop \in AfterStops, o \in RunOutcomes :
        /\ Acquired(servo[0])
        /\ o.fail = "none" => o.count = 10
        /\ CmdApply("run_until_stalled", after_stop, o,
                    pbio_servo_run_until_stalled(servo[0], dc[0], after_stop, o), 0)

CmdRunTarget ==
    \E target \in Targets, after_stop \in AfterStops, o \in RunOutcomes :
        /\ Acquired(servo[0])
        /\ o.fail = "none" => o.count = 10
        /\ CmdApply("run_target", after_stop, o,
                    pbio_servo_run_target(servo[0], dc[0], target, after_stop, o), 0)

CmdRunAngle ==
    \E angle \in Targets, after_stop \in AfterStops, o \in RunOutcomes :
        /\ Acquired(servo[0])
        /\ CmdApply("run_angle", after_stop, o,
                    pbio_servo_run_angle(servo[0], dc[0], angle, after_stop, o), 0)

CmdTrackTarget ==
    \E target \in Targets, t \in Times :
        LET o == [NoFail EXCEPT !.now = t]
        IN  /\ Acquired(servo[0])
            /\ CmdApply("track_target", "", o,
                        pbio_servo_track_target(servo[0], dc[0], target, o), 0)

\* pbio_servo_reset_angle.  While the servo holds, the tacho returns an
\* angle that is a hold error away from the target.
CmdResetAngle ==
    \E reset_angle \in ResetAngles, reset_to_abs \in BOOLEAN, abs \in AbsAngles,
       e \in HoldErrors, t \in Times,
       u \in {NoFail} \cup Fails({"get_angle", "reset", "actuate"}, CmdErrors) :
        LET hold == Holding(servo[0])
            angle == Sub32(pbio_control_counts_to_user(servo[0], servo[0].control.target), e)
            o == IF hold /\ u.fail \in {"none", "reset"}
                 THEN [u EXCEPT !.now = IF u.fail = "none" THEN t ELSE 0,
                                !.angle = angle, !.abs = abs]
                 ELSE [u EXCEPT !.abs = abs]
            r == pbio_servo_reset_angle(servo[0], dc[0], reset_angle, reset_to_abs, o)
        IN  /\ Acquired(servo[0])
            /\ ~(hold /\ u.fail = "none") => t = 1
            /\ ~(hold /\ u.fail \in {"none", "reset"}) => e = 0
            /\ u.fail = "get_angle" => hold
            /\ u.fail = "actuate" => (~hold /\ servo[0].control.type # "NONE")
            /\ CmdApply("reset_angle", IF reset_to_abs THEN "abs" ELSE "value", o, r,
                        IF r.ret = "SUCCESS"
                        THEN pbio_tacho_reset_angle(reset_angle, reset_to_abs, abs)
                        ELSE o.angle)

CmdInit ==
    /\ ServoInit
    /\ obs = [angle_offset |-> 0, angle |-> 0, speed |-> 0, current |-> 0,
              stalled |-> FALSE, stall_start |-> 0]
    /\ model = model_technic_l
    /\ clock = 0
    /\ nticks = 0
    /\ hist = <<>>
    /\ g = [op |-> "init"]

CmdNext ==
    \/ CmdGet \/ CmdTick \/ CmdStop \/ CmdSetDuty
    \/ CmdRun \/ CmdRunTime \/ CmdRunUntilStalled
    \/ CmdRunTarget \/ CmdRunAngle \/ CmdTrackTarget \/ CmdResetAngle

CmdSpec == CmdInit /\ [][CmdNext]_vars

-----------------------------------------------------------------------------
(* Interleaving specification: the user commands run in another execution
   context than the tick.  servo.c takes no lock and disables no interrupt,
   so a command can run between two statements of a control update.  The
   update of the servo of the first port is split where it hands the result
   of the control law to pbio_servo_actuate (servo.c lines 314 and 317). *)

\* the user commands that interleave: their name, argument and outcome
RaceCommands ==
    [name : {"stop"}, arg : {"COAST", "BRAKE"}, o : {NoFail}]
    \cup [name : {"stop"}, arg : {"HOLD"}, o : {[NoFail EXCEPT !.now = 2, !.count = 60]}]
    \cup [name : {"set_duty", "run"}, arg : {""}, o : {[NoFail EXCEPT !.now = 2]}]
    \cup [name : {"run_time"}, arg : AfterStops, o : {[NoFail EXCEPT !.now = 2]}]

\* the effect of a user command
RaceCommand(srv, d, c) ==
    CASE c.name = "stop" -> pbio_servo_stop(srv, d, c.arg, c.o)
      [] c.name = "set_duty" -> pbio_servo_set_duty_cycle(srv, d, c.o)
      [] c.name = "run" -> pbio_servo_run(srv, d, c.o)
      [] c.name = "run_time" -> pbio_servo_run_time(srv, d, c.arg, c.o)

\* the outcomes of a tick in which no driver call fails
RaceOutcomes(srv) ==
    { [NoFail EXCEPT !.on_target = t, !.now = 1, !.count = 10] :
          t \in { OnTarget(srv.control, raw) : raw \in BOOLEAN } }

\* the record of the last step: for the end of a tick, the servo and the
\* driver command at its start (pre), the commands that ran inside it and
\* its outcome
RaceOp(name, arg, o, ret, pre, cmds) ==
    [op |-> name, i |-> 0, arg |-> arg, o |-> o, ret |-> ret, pre |-> pre, cmds |-> cmds]

RaceGet ==
    /\ ~pending.active
    /\ ~Acquired(servo[0])
    /\ \E gear_ratio \in GearRatios :
         LET r == pbio_servo_get(servo[0], dc[0], PBDRV_CONFIG_FIRST_MOTOR_PORT,
                                 "NONE", gear_ratio, NoFail)
         IN  /\ servo' = Upd(servo, 0, r.srv)
             /\ dc' = Upd(dc, 0, r.dc)
             /\ last' = RaceOp("get", "", NoFail, r.ret, <<>>, <<>>)
    /\ UNCHANGED <<polling, pending, settings, obsvars>>

\* a user command, between two ticks or inside one
RaceUserCommand ==
    \E c \in RaceCommands :
        LET r == RaceCommand(servo[0], dc[0], c)
        IN  /\ Acquired(servo[0])
            /\ Len(pending.cmds) = 0
            /\ servo' = Upd(servo, 0, r.srv)
            /\ dc' = Upd(dc, 0, r.dc)
            /\ last' = RaceOp(c.name, c.arg, c.o, r.ret, <<>>, <<>>)
            /\ pending' = IF pending.active
                          THEN [pending EXCEPT !.cmds = Append(pending.cmds, c)]
                          ELSE pending
            /\ UNCHANGED <<polling, settings, obsvars>>

\* a tick up to the call of pbio_servo_actuate (servo.c lines 287-314): a
\* passive servo is logged and the tick ends; for an active one the control
\* law updates the control and leaves the actuation and its payload
RaceTickCompute ==
    \E o \in RaceOutcomes(servo[0]) :
        /\ ~pending.active
        /\ servo[0].connected
        /\ IF servo[0].control.type = "NONE"
           THEN LET r == PollServo(servo[0], dc[0], o)
                IN  /\ servo' = Upd(servo, 0, r.srv)
                    /\ dc' = Upd(dc, 0, r.dc)
                    /\ last' = RaceOp("poll", "", o, r.ret, <<servo[0], dc[0]>>, <<>>)
                    /\ pending' = NoPending
           ELSE LET law == control_update(servo[0].control, o.on_target)
                IN  /\ servo' = Upd(servo, 0, [servo[0] EXCEPT !.control = law.ctl])
                    /\ dc' = dc
                    /\ last' = RaceOp("control_update", "", o, "NA", <<>>, <<>>)
                    /\ pending' = [active |-> TRUE, actuation |-> law.actuation,
                                   control |-> o.count, o |-> o,
                                   pre |-> <<servo[0], dc[0]>>, cmds |-> <<>>]
        /\ UNCHANGED <<polling, settings, obsvars>>

\* the rest of the tick (servo.c lines 317-323 and 475), on the servo as it
\* is now
RaceTickActuate ==
    /\ pending.active
    /\ LET act == pbio_servo_actuate(servo[0], dc[0], pending.actuation,
                                     pending.control, pending.o)
           r == IF act.ret # "SUCCESS" THEN act ELSE LogUpdate(act, pending.o)
       IN  /\ servo' = Upd(servo, 0, [r.srv EXCEPT !.connected = (r.ret = "SUCCESS")])
           /\ dc' = Upd(dc, 0, r.dc)
           /\ last' = RaceOp("poll", "", pending.o, r.ret, pending.pre, pending.cmds)
    /\ pending' = NoPending
    /\ UNCHANGED <<polling, settings, obsvars>>

RaceNext == RaceGet \/ RaceUserCommand \/ RaceTickCompute \/ RaceTickActuate

RaceSpec == CmdInit /\ [][RaceNext]_vars

-----------------------------------------------------------------------------
(* Observer specification *)

ObsInit ==
    /\ obs \in StartStates
    /\ model \in RunModels
    /\ clock = 0
    /\ nticks = 0
    /\ hist = <<>>
    /\ g = [op |-> "init"]
    /\ ServoInit

\* a call of pbio_observer_reset
ObsReset ==
    \E c \in ResetCounts :
        /\ nticks < MaxTicks
        /\ nticks' = nticks + 1
        /\ obs' = pbio_observer_reset(obs, c)
        /\ hist' = Append(hist, <<clock, FALSE>>)
        /\ g' = [op |-> "reset", count |-> c, pre |-> obs]
        /\ UNCHANGED <<model, clock, srvvars>>

\* a call of pbio_observer_update at the next tick
ObsUpdate ==
    \E dt \in TickSteps, d \in CountDeltas, v \in Voltages :
        LET a == IF v = 0 THEN "COAST" ELSE "DUTY"
            time == Add32(clock, dt)
            count == Add32(pbio_observer_get_estimated_state(obs)[1], d)
            fb == FeedbackVoltage(model, obs, count)
        IN  /\ nticks < MaxTicks
            /\ nticks' = nticks + 1
            /\ clock' = time
            /\ obs' = pbio_observer_update(model, obs, time, count, a, v)
            /\ hist' = Append(hist, <<time, StallCondition(obs.speed, v, fb)>>)
            /\ g' = [op |-> "update", time |-> time, count |-> count, voltage |-> v,
                     feedback |-> fb, pre |-> obs,
                     angle_raw |-> AngleNext(model, obs, Add32(v, fb), FrictionTorque(model, obs))]
            /\ UNCHANGED <<model, srvvars>>

ObsNext == ObsReset \/ ObsUpdate

ObsSpec == ObsInit /\ [][ObsNext]_vars

-----------------------------------------------------------------------------
(* Rest specification: one observer, any model of the table, driven by
   updates with applied voltage 0 while the measured count is held.  The
   held count is that of the last reset, or the count the start state
   reports. *)

\* number of observer calls in one behaviour of the rest specification
MaxRestTicks == 5

\* observer states a behaviour of the rest specification starts from: at
\* rest, and moving in either direction with and without current
RestStates ==
    { [angle_offset |-> 0, angle |-> 0, speed |-> s, current |-> c,
       stalled |-> FALSE, stall_start |-> 0] :
          s \in {-300000, 0, 300000}, c \in {0, 2000} }

\* the count the tacho reports while it is held
HeldCount == g.count

RestInit ==
    /\ obs \in RestStates
    /\ model \in ObserverModels
    /\ clock = 0
    /\ nticks = 0
    /\ hist = <<>>
    /\ g = [op |-> "init", count |-> pbio_observer_get_estimated_state(obs)[1]]
    /\ ServoInit

\* a call of pbio_observer_reset with the count the tacho reports from now on
RestReset ==
    \E c \in ResetCounts :
        /\ nticks < MaxRestTicks
        /\ nticks' = nticks + 1
        /\ obs' = pbio_observer_reset(obs, c)
        /\ hist' = Append(hist, <<clock, FALSE>>)
        /\ g' = [op |-> "reset", count |-> c, pre |-> obs]
        /\ UNCHANGED <<model, clock, srvvars>>

\* a call of pbio_observer_update with the held count and voltage 0
RestUpdate ==
    \E dt \in TickSteps :
        LET time == Add32(clock, dt)
            fb == FeedbackVoltage(model, obs, HeldCount)
        IN  /\ nticks < MaxRestTicks
            /\ nticks' = nticks + 1
            /\ clock' = time
            /\ obs' = pbio_observer_update(model, obs, time, HeldCount, "DUTY", 0)
            /\ hist' = Append(hist, <<time, StallCondition(obs.speed, 0, fb)>>)
            /\ g' = [op |-> "update", time |-> time, count |-> HeldCount, voltage |-> 0,
                     feedback |-> fb, pre |-> obs,
                     angle_raw |-> AngleNext(model, obs, fb, FrictionTorque(model, obs))]
            /\ UNCHANGED <<model, srvvars>>

RestNext == RestReset \/ RestUpdate

RestSpec == RestInit /\ [][RestNext]_vars

-----------------------------------------------------------------------------
(* Call specification: single calls of pbio_observer_update with every
   actuation kind, and of pbio_observer_is_stalled *)

\* number of updates in one behaviour of the call specification
MaxCallTicks == 1

\* the actuation kinds a caller passes to pbio_observer_update
ObserverActuations == {"COAST", "DUTY"}

\* the count steps of the call specification, in degrees: held, pushed back
\* by 1000 (the gain 4000 times the residual leaves int32_t once) and by 3000
CallCountDeltas == {-3000, -1000, 0}

\* a call of pbio_observer_update with an actuation kind and a voltage
CallUpdate ==
    \E dt \in TickSteps, d \in CallCountDeltas, v \in Voltages, a \in ObserverActuations :
        LET time == Add32(clock, dt)
            count == Add32(pbio_observer_get_estimated_state(obs)[1], d)
            fb == FeedbackVoltage(model, obs, count)
        IN  /\ nticks < MaxCallTicks
            /\ nticks' = nticks + 1
            /\ clock' = time
            /\ obs' = pbio_observer_update(model, obs, time, count, a, v)
            /\ hist' = Append(hist, <<time, StallCondition(obs.speed, v, fb)>>)
            /\ g' = [op |-> "update", time |-> time, count |-> count, voltage |-> v,
                     actuation |-> a, feedback |-> fb, pre |-> obs]
            /\ UNCHANGED <<model, srvvars>>

\* a call of pbio_observer_is_stalled (observer.c lines 140-148): it writes
\* the duration and returns the flag; no field of the observer is assigned
CallIsStalled ==
    \E time \in QueryTimes :
        /\ obs' = obs
        /\ g' = [op |-> "is_stalled", time |-> time, pre |-> obs,
                 ret |-> pbio_observer_is_stalled(obs, time),
                 stall_duration |-> StallDuration(obs, time)]
        /\ UNCHANGED <<model, clock, nticks, hist, srvvars>>

CallNext == CallUpdate \/ CallIsStalled

CallSpec == ObsInit /\ [][CallNext]_vars

-----------------------------------------------------------------------------
(* Settings specification: calls of pbio_servo_load_settings on one settings
   block and one model reference of a caller *)

\* the type ids passed: the servo types, no device, and a device that is
\* no motor
LoadIds == ServoTypeIds \cup {"NONE", "COLOR_DISTANCE_SENSOR"}

\* the base settings written before the switch (servo_settings.c lines
\* 241-245)
BaseSettings(st) ==
    [st EXCEPT !.speed_tolerance = DEG_TO_MDEG(50),
               !.position_tolerance = DEG_TO_MDEG(10),
               !.stall_speed_limit = DEG_TO_MDEG(20),
               !.stall_time = pbio_control_time_ms_to_ticks(200),
               !.integral_change_max = DEG_TO_MDEG(15)]

\* pbio_servo_load_settings (servo_settings.c lines 238-341): the error
\* code, the settings block and the model reference after the call
pbio_servo_load_settings(st, mdl, id) ==
    LET base == BaseSettings(st)
    IN  IF id \notin DOMAIN TypeSettings
        THEN [ret |-> "NOT_SUPPORTED", settings |-> base, model |-> mdl]
        ELSE LET t == TypeSettings[id]
                 actuation_max ==
                     pbio_observer_voltage_to_torque(t.model, pbio_dcmotor_get_max_voltage(id))
             IN  [ret |-> "SUCCESS",
                  settings |-> [base EXCEPT !.speed_max = t.speed_max,
                                            !.acceleration = t.acceleration,
                                            !.pid_kp = t.pid_kp,
                                            !.pid_kd = t.pid_kd,
                                            !.speed_default = t.speed_max,
                                            !.deceleration = t.acceleration,
                                            !.actuation_max = actuation_max,
                                            !.pid_ki = CDiv(CDiv(actuation_max,
                                                CDiv(base.position_tolerance, 1000)), 2)],
                  model |-> t.model]

LoadInit ==
    /\ ServoInit
    /\ obs = [angle_offset |-> 0, angle |-> 0, speed |-> 0, current |-> 0,
              stalled |-> FALSE, stall_start |-> 0]
    /\ model \in RunModels
    /\ clock = 0
    /\ nticks = 0
    /\ hist = <<>>
    /\ g = [op |-> "init"]

\* a call of pbio_servo_load_settings
LoadSettings ==
    \E id \in LoadIds :
        LET r == pbio_servo_load_settings(settings, model, id)
        IN  /\ settings' = r.settings
            /\ model' = r.model
            /\ g' = [op |-> "load", id |-> id, ret |-> r.ret,
                     pre_settings |-> settings, pre_model |-> model]
            /\ UNCHANGED <<obs, clock, nticks, hist, servo, dc, polling, pending, last>>

LoadNext == LoadSettings

LoadSpec == LoadInit /\ [][LoadNext]_vars

-----------------------------------------------------------------------------
(* Tick specification: whole ticks of _pbio_servo_poll over a table of
   several servos *)

\* the number of servos of the table
TableSize == 2

TableIdx == 0 .. (TableSize - 1)

\* the entry of the tick's trace for servo i: its index, the error code of
\* its control update and the driver calls the update made
TickEntry(i, r) == [i |-> i, ret |-> r.ret, calls |-> r.calls]

\* a faulty tick that leaves the loop at the first control update that fails
poll_stops_at_first_error(table, dcs, os) ==
    LET r == [i \in TableIdx |-> PollServo(table[i], dcs[i], os[i])]
        failing == { i \in TableIdx : r[i].ret \notin {"SUCCESS", "SKIPPED"} }
        stop == IF failing = {} THEN TableSize - 1
                ELSE CHOOSE i \in failing : \A j \in failing : i <= j
    IN  [servo |-> [i \in TableIdx |-> IF i <= stop THEN r[i].srv ELSE table[i]],
         dc |-> [i \in TableIdx |-> IF i <= stop THEN r[i].dc ELSE dcs[i]],
         trace |-> [k \in 1 .. (stop + 1) |-> TickEntry(k - 1, r[k - 1])]]

\* the loop of _pbio_servo_poll from index i on (servo.c lines 468-476): the
\* table and the drivers as the iterations before i left them, and the trace
\* of those iterations
RECURSIVE PollFrom(_, _, _, _, _)
PollFrom(i, table, dcs, os, trace) ==
    IF ~(i < TableSize)
    THEN [servo |-> table, dc |-> dcs, trace |-> trace]
    ELSE LET r == PollServo(table[i], dcs[i], os[i])
         IN  PollFrom(i + 1,
                      [table EXCEPT ![i] = r.srv],
                      [dcs EXCEPT ![i] = r.dc],
                      os,
                      Append(trace, TickEntry(i, r)))

\* _pbio_servo_poll (servo.c lines 465-477); os[i] is the outcome of the
\* driver calls on servo i
_pbio_servo_poll(table, dcs, os) == PollFrom(0, table, dcs, os, <<>>)

\* the outcomes of the driver calls of one tick on the servos from index i
\* on, as sequences
RECURSIVE OutcomesFrom(_)
OutcomesFrom(i) ==
    IF ~(i < TableSize)
    THEN {<<>>}
    ELSE { <<o>> \o rest :
               o \in (IF servo[i].connected THEN UpdateOutcomes(servo[i]) ELSE {NoFail}),
               rest \in OutcomesFrom(i + 1) }

\* the outcomes of the driver calls of one tick, one per servo
TickOutcomes == { [i \in TableIdx |-> s[i + 1]] : s \in OutcomesFrom(0) }

\* the record of the last operation on the table: its name, the servo it
\* addressed (-1: all), its error code, and for a tick the table and the
\* drivers before it and its trace
TickOp(name, i, ret, pre, predc, trace) ==
    [op |-> name, i |-> i, ret |-> ret, pre |-> pre, predc |-> predc,
     trace |-> trace]

TickInit ==
    /\ servo = [i \in TableIdx |-> ServoZero]
    /\ dc = [i \in TableIdx |-> "coast"]
    /\ polling = TableSize
    /\ pending = NoPending
    /\ settings = SettingsZero
    /\ last = TickOp("none", -1, "NA", <<>>, <<>>, <<>>)
    /\ obs = [angle_offset |-> 0, angle |-> 0, speed |-> 0, current |-> 0,
              stalled |-> FALSE, stall_start |-> 0]
    /\ model = model_technic_l
    /\ clock = 0
    /\ nticks = 0
    /\ hist = <<>>
    /\ g = [op |-> "init"]

\* a call of pbio_servo_get on the port of servo i
TickGet ==
    \E i \in TableIdx, o \in {NoFail} \cup Fails({"tacho_get"}, TickErrors) :
        LET r == pbio_servo_get(servo[i], dc[i], PBDRV_CONFIG_FIRST_MOTOR_PORT + i,
                                "INTERACTIVE_MOTOR", 2, o)
        IN  /\ servo' = [servo EXCEPT ![i] = r.srv]
            /\ dc' = [dc EXCEPT ![i] = r.dc]
            /\ last' = TickOp("get", i, r.ret, <<>>, <<>>, <<>>)
            /\ UNCHANGED <<polling, pending, settings, obsvars>>

\* a call of pbio_servo_run_time on servo i, to hold the angle afterwards
TickRunTime ==
    \E i \in TableIdx :
        LET r == pbio_servo_run_time(servo[i], dc[i], "HOLD", NoFail)
        IN  /\ Acquired(servo[i])
            /\ servo' = [servo EXCEPT ![i] = r.srv]
            /\ dc' = [dc EXCEPT ![i] = r.dc]
            /\ last' = TickOp("run_time", i, r.ret, <<>>, <<>>, <<>>)
            /\ UNCHANGED <<polling, pending, settings, obsvars>>

\* one call of _pbio_servo_poll
TickPoll ==
    \E os \in TickOutcomes :
        LET r == _pbio_servo_poll(servo, dc, os)
        IN  /\ servo' = r.servo
            /\ dc' = r.dc
            /\ last' = TickOp("tick", -1, "NA", servo, dc, r.trace)
            /\ UNCHANGED <<polling, pending, settings, obsvars>>

TickNext == TickGet \/ TickRunTime \/ TickPoll

TickSpec == TickInit /\ [][TickNext]_vars

-----------------------------------------------------------------------------
(* Stall specification: one observer over a long stall, queried with
   pbio_observer_is_stalled at the time of its last update.  The time is
   the 32-bit microsecond clock, which wraps (Add32). *)

\* number of updates in one behaviour of the stall specification
MaxStallTicks == 5

\* time between two modelled updates, in microseconds: 120 ms, and 2^30
\* microseconds (about 18 minutes).  One step stands for a run of ticks with
\* the same inputs and the same value of the stall predicate.
StallSteps == {120000, 1073741824}

\* the subtraction a - b leaves int32_t
SubOverflows(a, b) ==
    \/ b > 0 /\ a < MinInt32 + b
    \/ b < 0 /\ a > MaxInt32 + b

\* the results of pbio_observer_is_stalled (observer.c lines 140-148), as
\* pairs of the returned flag and the duration written.  When
\* time - obs->stall_start overflows, which is undefined, the comparison of
\* line 142 may come out either way.
IsStalledResults(o, time) ==
    LET duration == CDiv(Sub32(time, o.stall_start), US_PER_MS)
    IN  IF o.stalled /\ SubOverflows(time, o.stall_start)
        THEN { <<TRUE, duration>>, <<FALSE, 0>> }
        ELSE { <<pbio_observer_is_stalled(o, time), StallDuration(o, time)>> }

StallInit ==
    /\ obs = [angle_offset |-> 0, angle |-> 0, speed |-> 0, current |-> 0,
              stalled |-> FALSE, stall_start |-> 0]
    /\ model \in RunModels
    /\ clock = 0
    /\ nticks = 0
    /\ hist = <<>>
    /\ g = [op |-> "init", ret |-> FALSE, stall_duration |-> 0, held |-> FALSE]
    /\ ServoInit

\* a call of pbio_observer_update at the next tick, with 9 V applied and the
\* measured count held at the estimate or pushed back.  g keeps the result
\* of the last query; g.held tells that this query returned true and that the
\* stall predicate was true at every update since.
StallUpdate ==
    \E dt \in StallSteps, d \in CallCountDeltas :
        LET time == Add32(clock, dt)
            count == Add32(pbio_observer_get_estimated_state(obs)[1], d)
            fb == FeedbackVoltage(model, obs, count)
        IN  /\ nticks < MaxStallTicks
            /\ nticks' = nticks + 1
            /\ clock' = time
            /\ obs' = pbio_observer_update(model, obs, time, count, "DUTY", 9000)
            /\ g' = [g EXCEPT !.op = "update",
                              !.held = @ /\ StallCondition(obs.speed, 9000, fb)]
            /\ UNCHANGED <<model, hist, srvvars>>

\* a call of pbio_observer_is_stalled at the time of the last update
StallQuery ==
    \E r \in IsStalledResults(obs, clock) :
        /\ g.op = "update"
        /\ g' = [op |-> "is_stalled", ret |-> r[1], stall_duration |-> r[2],
                 held |-> r[1]]
        /\ UNCHANGED <<obs, model, clock, nticks, hist, srvvars>>

StallNext == StallUpdate \/ StallQuery

StallSpec == StallInit /\ [][StallNext]_vars

-----------------------------------------------------------------------------
(* Properties of the observer, checked under ObsSpec.
   g records the last call and the observer state before it (g.pre); hist
   holds one pair <<time, raw stall predicate>> per update and one pair
   <<time, FALSE>> per reset, which clears the flag like a false update. *)

\* the reported absolute count of an observer state
ReportedCount(o) == pbio_observer_get_estimated_state(o)[1]

\* C1: after pbio_observer_reset(obs, c), from any prior state, the estimated
\* state is (c / COUNTS_PER_DEGREE, 0), angle = speed = current = 0, and
\* pbio_observer_is_stalled is false for every time argument.
C1_ResetState ==
    g.op = "reset" =>
        /\ pbio_observer_get_estimated_state(obs)
               = << CDiv(g.count, PBDRV_CONFIG_COUNTER_COUNTS_PER_DEGREE), 0 >>
        /\ obs.angle = 0 /\ obs.speed = 0 /\ obs.current = 0
        /\ \A t \in QueryTimes : ~pbio_observer_is_stalled(obs, t)

\* a reset of an observer that was moving and reported a stall
C1_Witness ==
    /\ g.op = "reset"
    /\ g.pre.stalled /\ g.pre.angle # 0 /\ g.pre.speed # 0 /\ g.pre.current # 0
    /\ \E t \in QueryTimes : pbio_observer_is_stalled(g.pre, t)
    /\ ReportedCount(g.pre) # g.count

\* the largest magnitude of one term PRESCALE * x / d, whatever 32-bit value
\* the product takes
TermBound(d) == MaxInt32 \div Abs(d) + 1

\* C2: in every state reachable by updates, with 32-bit arithmetic, the
\* internal angle satisfies |angle| <= MDEG_MAX.  (The second conjunct is why
\* one shift is enough: for every model of the table the four terms added to
\* the angle cannot carry it further than MDEG_MAX beyond the range, nor out
\* of int32_t.)
C2_AngleInRange ==
    /\ Abs(obs.angle) <= MDEG_MAX
    /\ \A m \in ObserverModels :
           TermBound(m.d_angle_d_speed) + TermBound(m.d_angle_d_current)
             + TermBound(m.d_angle_d_voltage) + TermBound(m.d_angle_d_torque)
               <= MaxInt32 - MDEG_MAX

\* an update whose next angle left the range at the upper end
C2_Witness ==
    /\ g.op = "update"
    /\ g.angle_raw > MDEG_MAX
    /\ obs.angle < g.angle_raw

\* C3: an update whose next angle is above MDEG_MAX (below -MDEG_MAX) raises
\* (lowers) angle_offset by exactly MDEG_MAX/MDEG_PER_DEG and shifts the angle
\* by MDEG_MAX the other way, so that the reported count is what it would be
\* without the shift; every other update leaves angle_offset unchanged.
C3_ShiftKeepsCount ==
    g.op = "update" =>
        LET unshifted == [g.pre EXCEPT !.angle = g.angle_raw]
        IN  IF g.angle_raw > MDEG_MAX
            THEN /\ obs.angle_offset = Add32(g.pre.angle_offset, MDEG_MAX \div MDEG_PER_DEG)
                 /\ obs.angle = g.angle_raw - MDEG_MAX
                 /\ ReportedCount(obs) = ReportedCount(unshifted)
            ELSE IF g.angle_raw < 0 - MDEG_MAX
            THEN /\ obs.angle_offset = Sub32(g.pre.angle_offset, MDEG_MAX \div MDEG_PER_DEG)
                 /\ obs.angle = g.angle_raw + MDEG_MAX
                 /\ ReportedCount(obs) = ReportedCount(unshifted)
            ELSE /\ obs.angle_offset = g.pre.angle_offset
                 /\ obs.angle = g.angle_raw

\* an update whose next angle left the range at the lower end, after a reset
\* gave a nonzero offset
C3_Witness ==
    /\ g.op = "update"
    /\ g.angle_raw < 0 - MDEG_MAX
    /\ g.pre.angle_offset # 0
    /\ obs.angle_offset # g.pre.angle_offset

\* the stall time of pbio_observer_is_stalled in microseconds
StallTimeUs == STALL_TIME_MS * US_PER_MS

\* C4: pbio_observer_is_stalled(obs, t) is true only if the raw stall
\* predicate was true at every update since the one that recorded
\* stall_start and t - stall_start exceeds the stall time; one update with a
\* false predicate clears the flag, and the next rise stamps stall_start
\* with the time of that update.
C4_StallTiming ==
    /\ \A t \in QueryTimes :
           pbio_observer_is_stalled(obs, t) =>
               /\ Sub32(t, obs.stall_start) > StallTimeUs
               /\ \E k \in 1 .. Len(hist) :
                      /\ hist[k] = << obs.stall_start, TRUE >>
                      /\ k > 1 => ~hist[k - 1][2]
                      /\ \A j \in k .. Len(hist) : hist[j][2]
    /\ (g.op = "update" /\ ~hist[Len(hist)][2]) =>
           /\ ~obs.stalled
           /\ \A t \in QueryTimes : ~pbio_observer_is_stalled(obs, t)
    /\ (g.op = "update" /\ hist[Len(hist)][2] /\ ~g.pre.stalled) =>
           /\ obs.stalled
           /\ obs.stall_start = g.time

\* the predicate was true, then false, then true again: the stall is not
\* reported 90 ms after the second rise and is reported 250 ms after it
C4_Witness ==
    /\ Len(hist) = 3
    /\ hist[1][2] /\ ~hist[2][2] /\ hist[3][2]
    /\ g.op = "update"
    /\ obs.stall_start = g.time
    /\ ~pbio_observer_is_stalled(obs, Add32(clock, 90000))
    /\ pbio_observer_is_stalled(obs, Add32(clock, 250000))

\* the stall predicate as stated: on speed, applied voltage and feedback
\* voltage, all three negated when the applied voltage is negative
StallPredicate(speed, applied_voltage, v_fb) ==
    LET s == IF applied_voltage < 0 THEN Neg32(speed) ELSE speed
        v == IF applied_voltage < 0 THEN Neg32(applied_voltage) ELSE applied_voltage
        f == IF applied_voltage < 0 THEN Neg32(v_fb) ELSE v_fb
    IN  s < 50 * MDEG_PER_DEG /\ f < 0 /\ Neg32(f) > CDiv(v, 2)

\* C5: after each update the stalled flag equals the stall predicate on the
\* speed before the update, the applied voltage without the feedback, and
\* the feedback voltage; the flag is false whenever the feedback is zero.
C5_StallFlag ==
    g.op = "update" =>
        /\ obs.stalled = StallPredicate(g.pre.speed, g.voltage, g.feedback)
        /\ g.feedback = 0 => ~obs.stalled
        /\ g.feedback = FeedbackVoltage(model, g.pre, g.count)

\* a stall flagged under a negative applied voltage and a positive feedback,
\* in an update that changed the speed
C5_Witness ==
    /\ g.op = "update"
    /\ g.voltage < 0
    /\ g.feedback > 0
    /\ obs.stalled
    /\ obs.speed # g.pre.speed

-----------------------------------------------------------------------------
(* Properties of the observer at rest, checked under RestSpec. *)

\* the observer state is the rest state of the held count: the angle equals
\* the measurement, speed and current are 0
AtRest(o, count) ==
    /\ MeasuredAngle(o, count) = o.angle
    /\ o.speed = 0
    /\ o.current = 0

\* C19: under updates with applied voltage 0 and the measured count held,
\* |speed| and |current| never increase from one update to the next, and
\* the rest state (angle equal to the measurement, speed = 0, current = 0)
\* is a fixed point of the update.
C19_ZeroInputDecay ==
    (g.op = "update" /\ g.voltage = 0) =>
        /\ Abs(obs.speed) <= Abs(g.pre.speed)
        /\ Abs(obs.current) <= Abs(g.pre.current)
        /\ AtRest(g.pre, g.count) => obs = g.pre

\* C20: after reset(c) followed by one update with measured count c and
\* applied voltage 0, the estimated state is (c / COUNTS_PER_DEGREE, 0), for
\* every model of the table.
C20_RestTickKeepsEstimate ==
    ( /\ g.op = "update"
      /\ g.voltage = 0
      /\ g.pre = pbio_observer_reset(g.pre, g.count) )
    => pbio_observer_get_estimated_state(obs)
          = << CDiv(g.count, PBDRV_CONFIG_COUNTER_COUNTS_PER_DEGREE), 0 >>

-----------------------------------------------------------------------------
(* Properties of the servo module, checked under Spec.
   last records the operation that led to the state. *)

\* the last operation returned a driver error
Failed == last.ret \notin {"NA", "SUCCESS", "SKIPPED", "INVALID_PORT"}

\* C6: pbio_servo_get with a port below the first or above the last motor
\* port returns INVALID_PORT and changes nothing: no entry of the servo table
\* is modified and no driver is called.
C6_InvalidPort ==
    [][ ( /\ last'.op = "get"
          /\ \/ last'.port < PBDRV_CONFIG_FIRST_MOTOR_PORT
             \/ last'.port > PBDRV_CONFIG_LAST_MOTOR_PORT )
        => /\ last'.ret = "INVALID_PORT"
           /\ last'.calls = <<>>
           /\ servo' = servo
           /\ dc' = dc ]_vars

\* an invalid port above the range was rejected while a servo of the table
\* was connected and under control
C6_Witness ==
    /\ last.op = "get"
    /\ last.port > PBDRV_CONFIG_LAST_MOTOR_PORT
    /\ last.ret = "INVALID_PORT"
    /\ \E i \in Idx : servo[i].connected /\ servo[i].control.type # "NONE"

\* C7: pbio_servo_get fails with NOT_SUPPORTED when the DC driver reports a
\* type id that is no servo type, and then the servo is not marked connected.
C7_UnknownTypeRejected ==
    ( /\ last.op = "get"
      /\ last.fail = "none"
      /\ last.i \in Idx
      /\ last.id \notin ServoTypeIds )
    => /\ last.ret = "NOT_SUPPORTED"
       /\ ~servo[last.i].connected

\* C8: when the call made by pbio_servo_actuate returns a driver error, from
\* a control tick or from pbio_servo_stop, the control type is NONE
\* afterwards, the low-level coast of the port was called after the failed
\* call, and the error is returned unchanged.
C8_ActuateError ==
    last.fail = "actuate" =>
        /\ last.op \in {"poll", "stop"}
        /\ servo[last.i].control.type = "NONE"
        /\ Len(last.calls) >= 2
        /\ last.calls[Len(last.calls)] = "pbdrv_motor_coast"
        /\ last.calls[Len(last.calls) - 1] \in
               { "pbio_dcmotor_coast", "pbio_dcmotor_brake",
                 "pbio_control_start_hold_control", "pbio_dcmotor_set_duty_cycle_sys" }
        /\ dc[last.i] = "coast"
        /\ last.ret = last.err
        /\ last.err \in Errors

\* a control tick whose set-duty call failed
C8_Witness ==
    /\ last.op = "poll"
    /\ last.fail = "actuate"
    /\ last.calls = << "pbio_tacho_get_count", "pbio_tacho_get_rate",
                       "pbio_dcmotor_set_duty_cycle_sys", "pbdrv_motor_coast" >>
    /\ servo[last.i].control.type = "NONE"

\* C9: a servo whose control update returns an error in a tick is marked
\* disconnected in that tick; a tick calls neither the control update nor a
\* driver of a disconnected servo and leaves it as it is; only a successful
\* pbio_servo_get on its port marks it connected again; a tick services every
\* connected servo.
C9_DisconnectAndSkip ==
    [][ /\ (last'.op = "poll" /\ servo[last'.i].connected) =>
              /\ Len(last'.calls) > 0
              /\ last'.calls[1] = "pbio_tacho_get_count"
              /\ servo'[last'.i].connected = (last'.ret = "SUCCESS")
        /\ (last'.op = "poll" /\ ~servo[last'.i].connected) =>
              /\ last'.calls = <<>>
              /\ servo' = servo
              /\ dc' = dc
        /\ \A i \in Idx :
              (~servo[i].connected /\ servo'[i].connected) =>
                  /\ last'.op = "get"
                  /\ last'.ret = "SUCCESS"
                  /\ last'.port = PBDRV_CONFIG_FIRST_MOTOR_PORT + i ]_vars

\* a tick skipped a servo that an earlier tick had disconnected
C9_Witness ==
    /\ last.op = "poll"
    /\ last.ret = "SKIPPED"
    /\ servo[last.i].acquired
    /\ ~servo[last.i].connected

\* C10: when a control tick of a servo fails with a driver error, the control
\* loop is stopped (control type NONE), a low-level coast is attempted, and
\* the servo is marked disconnected.
C10_TickFailureStops ==
    (last.op = "poll" /\ Failed) =>
        /\ servo[last.i].control.type = "NONE"
        /\ \E k \in 1 .. Len(last.calls) : last.calls[k] = "pbdrv_motor_coast"
        /\ ~servo[last.i].connected

-----------------------------------------------------------------------------
(* Properties of the user commands, checked under CmdSpec *)

\* the user commands of servo.c
UserCommands ==
    { "run", "run_time", "run_until_stalled", "run_target", "run_angle",
      "track_target", "stop", "set_duty", "reset_angle" }

\* the run commands
RunCommands ==
    { "run", "run_time", "run_until_stalled", "run_target", "run_angle",
      "track_target" }

\* C11: every user command that returns an error leaves the motor coasting
\* with control type NONE, whichever driver call failed.
C11_FailedCommandCoasts ==
    (last.op \in UserCommands /\ Failed) =>
        /\ servo[0].control.type = "NONE"
        /\ dc[0] = "coast"

\* C12: when pbio_servo_reset_angle succeeds on a servo that is holding, the
\* servo is in ANGLE hold control afterwards and the difference between the
\* hold target and the measured angle, in user units, is the same as before
\* the call, for both values of reset_to_abs.
C12_ResetKeepsHoldError ==
    ( /\ last.op = "reset_angle"
      /\ last.ret = "SUCCESS"
      /\ last.was.type = "ANGLE"
      /\ last.was.on_target )
    => /\ Holding(servo[0])
       /\ servo[0].control.func = "hold"
       /\ pbio_control_counts_to_user(servo[0], servo[0].control.target) - last.angle_new
              = pbio_control_counts_to_user(servo[0], last.was.target) - last.angle_old

\* C13: pbio_servo_reset_angle on a servo with control type NONE resets the
\* tacho and leaves the servo and the last command of the DC driver as they
\* are; on a servo in active control that is not holding it first coasts
\* the motor with control type NONE and only then resets the tacho, and when
\* the coast fails the tacho is not reset.
C13_ResetAngleFrame ==
    [][ last'.op = "reset_angle" =>
          /\ servo[0].control.type = "NONE" =>
                /\ servo' = servo
                /\ dc' = dc
                /\ last'.calls = <<"pbio_tacho_reset_angle">>
          /\ (servo[0].control.type # "NONE" /\ ~Holding(servo[0])) =>
                /\ servo'[0].control.type = "NONE"
                /\ dc'[0] = "coast"
                /\ IF last'.fail = "actuate"
                   THEN /\ last'.calls = <<"pbio_dcmotor_coast", "pbdrv_motor_coast">>
                        /\ last'.ret = last'.err
                   ELSE last'.calls = <<"pbio_dcmotor_coast", "pbio_tacho_reset_angle">>
      ]_vars

\* a reset of the angle ended a timed maneuver: coast, then the tacho reset
C13_Witness ==
    /\ last.op = "reset_angle"
    /\ last.ret = "SUCCESS"
    /\ last.was.type = "TIMED"
    /\ last.calls = <<"pbio_dcmotor_coast", "pbio_tacho_reset_angle">>
    /\ servo[0].control.type = "NONE"
    /\ dc[0] = "coast"

\* C14: a successful pbio_servo_stop ends any maneuver: with COAST or BRAKE
\* the control type is NONE and the DC driver received coast or brake; with
\* HOLD the servo is in ANGLE hold control pinned at the count the call read,
\* whatever the control was before.
C14_StopSemantics ==
    (last.op = "stop" /\ last.ret = "SUCCESS") =>
        CASE last.arg = "COAST" -> servo[0].control.type = "NONE" /\ dc[0] = "coast"
          [] last.arg = "BRAKE" -> servo[0].control.type = "NONE" /\ dc[0] = "brake"
          [] last.arg = "HOLD" -> /\ servo[0].control.type = "ANGLE"
                                  /\ servo[0].control.func = "hold"
                                  /\ servo[0].control.on_target
                                  /\ servo[0].control.target = last.count
                                  /\ last.count \in Counts

\* a stop with BRAKE ended an active maneuver
C14_Witness ==
    /\ last.op = "stop"
    /\ last.ret = "SUCCESS"
    /\ last.arg = "BRAKE"
    /\ last.was.type = "TIMED"
    /\ servo[0].control.type = "NONE"
    /\ dc[0] = "brake"

\* an actuation call of the control loop
LoopActuations ==
    { "pbio_dcmotor_coast", "pbio_dcmotor_brake", "pbio_control_start_hold_control",
      "pbio_dcmotor_set_duty_cycle_sys", "pbdrv_motor_coast" }

\* C15: after pbio_servo_set_duty_cycle the control type is NONE whether or
\* not the driver call succeeded, the DC driver has the user duty when it
\* did, and a tick of a servo whose control type is NONE makes no actuation
\* call and leaves the last command of the DC driver as it is.
C15_SetDutyStopsControl ==
    [][ /\ last'.op = "set_duty" =>
              /\ servo'[0].control.type = "NONE"
              /\ last'.calls = <<"pbio_dcmotor_set_duty_cycle_usr">>
              /\ last'.ret = "SUCCESS" => dc'[0] = "duty_usr"
        /\ (last'.op = "poll" /\ servo[0].control.type = "NONE") =>
              /\ servo'[0].control.type = "NONE"
              /\ dc' = dc
              /\ \A k \in 1 .. Len(last'.calls) : last'.calls[k] \notin LoopActuations
      ]_vars

\* a tick passed over a servo that has the user duty
C15_Witness ==
    /\ last.op = "poll"
    /\ last.ret = "SUCCESS"
    /\ last.was.type = "NONE"
    /\ dc[0] = "duty_usr"
    /\ servo[0].control.type = "NONE"

\* the control type and the completion predicate of a run command
CommandControl(op) ==
    CASE op = "run" -> <<"TIMED", "never">>
      [] op = "run_time" -> <<"TIMED", "time">>
      [] op = "run_until_stalled" -> <<"TIMED", "stalled">>
      [] op = "run_target" -> <<"ANGLE", "angle">>
      [] op = "run_angle" -> <<"ANGLE", "angle">>
      [] op = "track_target" -> <<"ANGLE", "hold">>

\* C16: a run command that succeeds while another maneuver is active
\* replaces it at once: the control type and the completion predicate are
\* those of the new command and the start time of the trajectory is the
\* time the new command read.
C16_RunCommandReplaces ==
    (last.op \in RunCommands /\ last.ret = "SUCCESS" /\ last.was.type # "NONE") =>
        /\ <<servo[0].control.type, servo[0].control.func>> = CommandControl(last.op)
        /\ servo[0].control.t0 = last.now
        /\ last.now \in Times

\* run_target replaced a timed maneuver that had started at another time
C16_Witness ==
    /\ last.op = "run_target"
    /\ last.ret = "SUCCESS"
    /\ last.was.type = "TIMED"
    /\ last.was.t0 # last.now
    /\ servo[0].control.type = "ANGLE"
    /\ servo[0].control.t0 = last.now

\* C17: a successful run starts a TIMED control with the never-on-target
\* predicate, a successful track_target an ANGLE control; a tick in which no
\* driver call fails leaves the type and the predicate of both as they are.
C17_RunAndTrackNeverEnd ==
    [][ /\ (last'.op = "run" /\ last'.ret = "SUCCESS") =>
              /\ servo'[0].control.type = "TIMED"
              /\ servo'[0].control.func = "never"
        /\ (last'.op = "track_target" /\ last'.ret = "SUCCESS") =>
              /\ servo'[0].control.type = "ANGLE"
              /\ servo'[0].control.func = "hold"
        /\ ( /\ last'.op = "poll"
             /\ last'.ret = "SUCCESS"
             /\ servo[0].control.func \in {"never", "hold"}
             /\ servo[0].control.type # "NONE" ) =>
              /\ servo'[0].control.type = servo[0].control.type
              /\ servo'[0].control.func = servo[0].control.func
              /\ dc'[0] = "duty"
      ]_vars

\* a tick of a run applied a duty and left the control TIMED
C17_Witness ==
    /\ last.op = "poll"
    /\ last.ret = "SUCCESS"
    /\ last.was.type = "TIMED"
    /\ servo[0].control.type = "TIMED"
    /\ servo[0].control.func = "never"
    /\ dc[0] = "duty"

-----------------------------------------------------------------------------
(* Property of the interleavings, checked under RaceSpec *)

\* the servo and driver command after the command c, then a tick
CommandThenTick(pre, c, o) ==
    LET a == RaceCommand(pre[1], pre[2], c)
        b == PollServo(a.srv, a.dc, o)
    IN  <<b.srv, b.dc>>

\* the servo and driver command after a tick, then the command c
TickThenCommand(pre, c, o) ==
    LET a == PollServo(pre[1], pre[2], o)
        b == RaceCommand(a.srv, a.dc, c)
    IN  <<b.srv, b.dc>>

-----------------------------------------------------------------------------
(* Properties of the friction model, checked under ObsSpec *)

\* the sign of x: -1, 0 or 1
Sign(x) == IF x > 0 THEN 1 ELSE IF x < 0 THEN -1 ELSE 0

\* the voltage the state transition of the last update used
ModelVoltage == Add32(g.voltage, g.feedback)

\* C21: in every pbio_observer_update the modeled friction torque is
\* sign(speed) * torque_friction of the speed before the update:
\* +torque_friction for speed > 0, -torque_friction for speed < 0 and 0 for
\* speed = 0.
C21_FrictionTorqueSign ==
    g.op = "update" =>
        FrictionTorque(model, g.pre) = Sign(g.pre.speed) * model.torque_friction

\* the next speed of the last update with the friction term, and without it
SpeedWithFriction ==
    SpeedNextLinear(model, g.pre, ModelVoltage, FrictionTorque(model, g.pre))

SpeedWithoutFriction ==
    Sub32(SpeedWithFriction,
          Term(PRESCALE_TORQUE, FrictionTorque(model, g.pre), model.d_speed_d_torque))

\* C22: the speed committed by pbio_observer_update is 0 exactly when the
\* next speed with the friction term and the next speed without it lie on
\* opposite sides of the test "< 0", and is the full linear combination
\* otherwise; the committed speed is never on the other side of zero than
\* the speed without friction.
C22_FrictionZeroCrossing ==
    g.op = "update" =>
        /\ obs.speed = IF (SpeedWithFriction < 0) # (SpeedWithoutFriction < 0)
                       THEN 0
                       ELSE SpeedWithFriction
        /\ ~(SpeedWithoutFriction < 0 /\ obs.speed > 0)
        /\ ~(SpeedWithoutFriction > 0 /\ obs.speed < 0)

\* an update in which the friction term alone took the next speed below
\* zero, and the committed speed is 0
C22_Witness ==
    /\ g.op = "update"
    /\ SpeedWithFriction < 0
    /\ SpeedWithoutFriction > 0
    /\ obs.speed = 0

-----------------------------------------------------------------------------
(* Properties of single observer calls, checked under CallSpec *)

\* C23: when pbio_observer_update is called with actuation kind COAST, the
\* observer advances its state as if the applied voltage were 0, whatever
\* voltage argument is passed.
C23_CoastIntegratesZeroVoltage ==
    (g.op = "update" /\ g.actuation = "COAST") =>
        obs = pbio_observer_update(model, g.pre, g.time, g.count, "COAST", 0)

\* C27: pbio_observer_is_stalled reports a stall duration of
\* (time - stall_start) / US_PER_MS milliseconds when it returns true and
\* exactly 0 when it returns false, and it leaves the observer state as it
\* was.
C27_IsStalledDuration ==
    g.op = "is_stalled" =>
        /\ obs = g.pre
        /\ g.ret = (obs.stalled /\ Sub32(g.time, obs.stall_start) > STALL_TIME_MS * US_PER_MS)
        /\ g.stall_duration = IF g.ret
                              THEN CDiv(Sub32(g.time, obs.stall_start), US_PER_MS)
                              ELSE 0

\* a stall of 250 ms was reported
C27_Witness ==
    /\ g.op = "is_stalled"
    /\ g.ret
    /\ obs.stalled
    /\ g.stall_duration = 250

-----------------------------------------------------------------------------
(* Properties of pbio_servo_load_settings, checked under LoadSpec *)

\* the observer model of a motor type
ModelOfType(id) ==
    CASE id = "EV3_MEDIUM_MOTOR" -> model_ev3_m
      [] id = "EV3_LARGE_MOTOR" -> model_ev3_l
      [] id = "INTERACTIVE_MOTOR" -> model_interactive
      [] id = "MOVE_HUB_MOTOR" -> model_movehub
      [] id = "TECHNIC_L_MOTOR" -> model_technic_l
      [] id = "TECHNIC_XL_MOTOR" -> model_technic_xl
      [] id = "SPIKE_S_MOTOR" -> model_technic_s_angular
      [] id \in {"TECHNIC_L_ANGULAR_MOTOR", "SPIKE_L_MOTOR"} -> model_technic_l_angular
      [] id \in {"TECHNIC_M_ANGULAR_MOTOR", "SPIKE_M_MOTOR"} -> model_technic_m_angular

\* C24: for every motor type id that pbio_servo_load_settings supports, on
\* success actuation_max = voltage_to_torque(model, max_voltage(id)) with
\* max_voltage 6000 for the Spike S motor and 9000 otherwise, pid_ki =
\* actuation_max / (position_tolerance / 1000) / 2, speed_default =
\* speed_max, deceleration = acceleration, and the model returned is the one
\* of that type.
C24_LoadedSettings ==
    (g.op = "load" /\ g.ret = "SUCCESS") =>
        /\ g.id \in ServoTypeIds
        /\ model = ModelOfType(g.id)
        /\ settings.actuation_max =
               CDiv(Mul32(PRESCALE_VOLTAGE, IF g.id = "SPIKE_S_MOTOR" THEN 6000 ELSE 9000),
                    model.d_torque_d_voltage)
        /\ settings.pid_ki =
               CDiv(CDiv(settings.actuation_max, CDiv(settings.position_tolerance, 1000)), 2)
        /\ settings.speed_default = settings.speed_max
        /\ settings.deceleration = settings.acceleration

\* the settings of the Spike S motor were loaded over those of another type
C24_Witness ==
    /\ g.op = "load"
    /\ g.ret = "SUCCESS"
    /\ g.id = "SPIKE_S_MOTOR"
    /\ g.pre_model # model_technic_s_angular
    /\ g.pre_settings.actuation_max > settings.actuation_max
    /\ settings.pid_ki > 0

\* C25: when pbio_servo_load_settings returns NOT_SUPPORTED, the caller's
\* settings and model reference are as they were before the call.
C25_NotSupportedChangesNothing ==
    (g.op = "load" /\ g.ret = "NOT_SUPPORTED") =>
        /\ settings = g.pre_settings
        /\ model = g.pre_model

-----------------------------------------------------------------------------
(* Properties of the servo table, checked under Spec (continued) *)

\* C26: every control settings block a servo is given at setup has a
\* stall_time of 200 ms in microseconds (200 * US_PER_MS), for every motor
\* type id, the ids that get the default block included.
C26_StallTimeMicroseconds ==
    (last.op = "get" /\ last.ret = "SUCCESS") =>
        SettingsBlock(last.settings).stall_time = 200 * US_PER_MS

\* C30: pbio_servo_get on a valid port sets the connected flag exactly when
\* the setup succeeds and never clears it: when the DC or tacho acquisition
\* fails, the connected flag and the control state keep their values, while
\* the port field has been written; no other servo of the table changes.
C30_GetNeverDisconnects ==
    [][ (last'.op = "get" /\ last'.i \in Idx) =>
          /\ servo'[last'.i].port = last'.port
          /\ IF last'.ret = "SUCCESS"
             THEN servo'[last'.i].connected
             ELSE /\ last'.ret = last'.err
                  /\ servo'[last'.i].connected = servo[last'.i].connected
                  /\ servo'[last'.i].control = servo[last'.i].control
          /\ \A j \in Idx \ {last'.i} : servo'[j] = servo[j]
      ]_vars

\* a failed pbio_servo_get on the port of a servo that is connected and in
\* active control
C30_Witness ==
    /\ last.op = "get"
    /\ last.i \in Idx
    /\ Failed
    /\ servo[last.i].connected
    /\ servo[last.i].control.type # "NONE"
    /\ servo[last.i].port = last.port

-----------------------------------------------------------------------------
(* Properties of the user commands, checked under CmdSpec (continued) *)

\* the calls of a tick of a passive servo
PassiveCalls ==
    { "pbio_tacho_get_count", "pbio_tacho_get_rate", "pbio_dcmotor_get_state",
      "pbio_logger_update" }

\* C28: a tick on a connected servo whose control type is NONE issues no
\* actuation: it calls only the tacho reads, the read of the DC state and
\* the logger, and leaves the control and the last command of the DC driver
\* as they are; while the control type is NONE and stays so, no tick changes
\* the last command of the DC driver.
C28_PassiveTick ==
    [][ /\ ( /\ last'.op = "poll"
             /\ servo[0].connected
             /\ servo[0].control.type = "NONE" ) =>
              /\ servo'[0].control = servo[0].control
              /\ dc' = dc
              /\ \A k \in 1 .. Len(last'.calls) : last'.calls[k] \in PassiveCalls
              /\ last'.ret = "SUCCESS" =>
                    last'.calls = << "pbio_tacho_get_count", "pbio_tacho_get_rate",
                                     "pbio_dcmotor_get_state", "pbio_logger_update" >>
        /\ (servo[0].control.type = "NONE" /\ dc'[0] # dc[0]) => last'.op # "poll"
      ]_vars

\* a tick passed over a braked motor: the state was read and logged
C28_Witness ==
    /\ last.op = "poll"
    /\ last.ret = "SUCCESS"
    /\ last.was.type = "NONE"
    /\ last.calls = << "pbio_tacho_get_count", "pbio_tacho_get_rate",
                       "pbio_dcmotor_get_state", "pbio_logger_update" >>
    /\ dc[0] = "brake"
    /\ servo[0].control.type = "NONE"

\* the run commands that read the state of the motor
StateReadingCommands ==
    { "run", "run_time", "run_until_stalled", "run_target", "run_angle" }

\* C29: when the read of the tacho count or rate fails inside a run command,
\* the command returns that error, makes no DC driver call and leaves the
\* servo, with the control type, trajectory and completion predicate, as it
\* was.
C29_FailedReadKeepsManeuver ==
    [][ (last'.op \in StateReadingCommands /\ last'.fail \in {"count", "rate"}) =>
          /\ last'.ret = last'.err
          /\ last'.ret \in CmdErrors
          /\ servo' = servo
          /\ dc' = dc
          /\ \A k \in 1 .. Len(last'.calls) :
                 last'.calls[k] \in {"pbio_tacho_get_count", "pbio_tacho_get_rate"}
      ]_vars

\* run_target failed on the rate read while a timed maneuver was applying
\* its duty: the maneuver is still there
C29_Witness ==
    /\ last.op = "run_target"
    /\ last.fail = "rate"
    /\ last.ret = "IO"
    /\ last.was.type = "TIMED"
    /\ servo[0].control.type = "TIMED"
    /\ dc[0] = "duty"

-----------------------------------------------------------------------------
(* Properties of whole ticks, checked under TickSpec *)

\* the control update of servo i alone, from its state before the tick of
\* last, with the outcome o of its driver calls, gives what the tick left
LoneUpdate(i, o) ==
    LET r == pbio_servo_control_update(last.pre[i], last.predc[i], o)
        e == last.trace[i + 1]
    IN  /\ servo[i] = [r.srv EXCEPT !.connected = (r.ret = "SUCCESS")]
        /\ dc[i] = r.dc
        /\ e.ret = r.ret
        /\ e.calls = r.calls

\* C31: within one tick every servo that is connected at its start gets
\* exactly one control update, in index order, and a disconnected one gets
\* none and is left as it is; what the tick leaves of a connected servo is the
\* result of a control update of that servo alone, whatever the updates of the
\* other servos return; a servo stays connected exactly when its own update
\* succeeds, and a tick never connects a servo.
C31_TickServesEachServo ==
    last.op = "tick" =>
        /\ Len(last.trace) = TableSize
        /\ \A i \in TableIdx :
              LET e == last.trace[i + 1]
              IN  /\ e.i = i
                  /\ IF last.pre[i].connected
                     THEN /\ Len(e.calls) > 0
                          /\ e.calls[1] = "pbio_tacho_get_count"
                          /\ Cardinality({ k \in 1 .. Len(e.calls) :
                                             e.calls[k] = "pbio_tacho_get_count" }) = 1
                          /\ servo[i].connected = (e.ret = "SUCCESS")
                          /\ \E o \in UpdateOutcomes(last.pre[i]) : LoneUpdate(i, o)
                     ELSE /\ e.ret = "SKIPPED"
                          /\ e.calls = <<>>
                          /\ servo[i] = last.pre[i]
                          /\ dc[i] = last.predc[i]

\* a tick in which the update of the first servo failed and the servo after
\* it, in active control, was updated and actuated
C31_Witness ==
    /\ last.op = "tick"
    /\ last.pre[0].connected
    /\ last.pre[1].connected
    /\ last.trace[1].ret = "IO"
    /\ ~servo[0].connected
    /\ last.pre[1].control.type # "NONE"
    /\ last.trace[2].ret = "SUCCESS"
    /\ servo[1].connected
    /\ dc[1] # last.predc[1]

-----------------------------------------------------------------------------
(* Properties of a long stall, checked under StallSpec *)

\* C32: once pbio_observer_is_stalled has returned true, it returns true at
\* every later query as long as the stall predicate was true at every update
\* in between, and the duration it reports is not less than the one reported
\* before, also when the 32-bit clock has wrapped or more than 2^31
\* microseconds have passed since stall_start.
C32_StallReportPersists ==
    [][ (g'.op = "is_stalled" /\ g.held) =>
            /\ g'.ret
            /\ g'.stall_duration >= g.stall_duration ]_vars

-----------------------------------------------------------------------------
(* Properties of the feedback voltage, checked under CallSpec *)

\* the angle residual of the last update: measured angle minus estimated
\* angle, in millidegrees
Residual == Sub32(MeasuredAngle(g.pre, g.count), g.pre.angle)

\* C33: in every update the feedback voltage is zero or has the sign of the
\* angle residual, for every residual within the millidegree range and every
\* model gain.
C33_FeedbackFollowsResidual ==
    (g.op = "update" /\ Abs(g.pre.angle) <= MDEG_MAX /\ Abs(Residual) <= MDEG_MAX) =>
        \/ g.feedback = 0
        \/ Sign(g.feedback) = Sign(Residual)

\* the observer state o turning the other way
Mirrored(o) == [o EXCEPT !.speed = Neg32(@)]

\* speeds, applied voltages and feedback voltages around the thresholds of
\* the stall condition and at the ends of int32_t
GridSpeeds ==
    LET limit == STALL_SPEED_DEG * MDEG_PER_DEG
    IN  {0 - MaxInt32, 0 - limit - 1, 0 - limit, 1 - limit, 0,
         limit - 1, limit, limit + 1, MaxInt32}

GridVoltages == {0 - MaxInt32, -9000, -9001, -1, 1, 9000, 9001, MaxInt32}

GridFeedbacks == {0 - MaxInt32, -4501, -4500, -4499, -1, 0, 1, 4499, 4500, 4501, MaxInt32}

\* C34: for every observer state and every applied voltage v other than 0,
\* update_stall_state gives the same stall flag and the same stall start for
\* (speed, v, v_fb) and for (-speed, -v, -v_fb), wherever the three negations
\* exist in int32_t: for the inputs of the update made, and from the state
\* before it for every speed, voltage and feedback of the grid.
C34_StallSymmetric ==
    (/\ g.op = "update"
     /\ g.voltage # 0
     /\ MinInt32 \notin {g.pre.speed, g.voltage, g.feedback}) =>
        LET a == update_stall_state(g.pre, g.time, g.voltage, g.feedback)
            b == update_stall_state(Mirrored(g.pre), g.time,
                                    Neg32(g.voltage), Neg32(g.feedback))
        IN  /\ obs.stalled = a.stalled
            /\ obs.stall_start = a.stall_start
            /\ b.stalled = a.stalled
            /\ b.stall_start = a.stall_start
            /\ \A s \in GridSpeeds, v \in GridVoltages, fb \in GridFeedbacks :
                   LET o == [g.pre EXCEPT !.speed = s]
                       c == update_stall_state(o, g.time, v, fb)
                       d == update_stall_state(Mirrored(o), g.time, Neg32(v), Neg32(fb))
                   IN  c.stalled = d.stalled /\ c.stall_start = d.stall_start

\* an update of an observer running backward at more than the stall speed
\* limit, with a negative voltage applied and the model ahead of the
\* measurement far enough for the feedback condition: no stall either way
C34_Witness ==
    /\ g.op = "update"
    /\ g.voltage < 0
    /\ g.pre.speed < 0 - STALL_SPEED_DEG * MDEG_PER_DEG
    /\ g.feedback > 0
    /\ g.feedback > CDiv(Neg32(g.voltage), 2)
    /\ ~obs.stalled
    /\ ~update_stall_state(Mirrored(g.pre), g.time, Neg32(g.voltage),
                           Neg32(g.feedback)).stalled

-----------------------------------------------------------------------------
(* Properties of the torque ceiling, checked under LoadSpec *)

\* the torque ceiling of a motor type, converted back to a voltage
CeilingVoltage(id) ==
    pbio_observer_torque_to_voltage(ModelOfType(id),
        pbio_observer_voltage_to_torque(ModelOfType(id), pbio_dcmotor_get_max_voltage(id)))

\* C35: for every supported motor type, the torque ceiling converted back
\* to a voltage does not exceed the maximum voltage of the motor: for the
\* actuation_max and the model a successful pbio_servo_load_settings leaves,
\* and for the model of every type.
C35_CeilingWithinMaxVoltage ==
    /\ (g.op = "load" /\ g.ret = "SUCCESS") =>
           pbio_observer_torque_to_voltage(model, settings.actuation_max)
               <= pbio_dcmotor_get_max_voltage(g.id)
    /\ \A id \in ServoTypeIds :
           CeilingVoltage(id) <= pbio_dcmotor_get_max_voltage(id)

\* the settings of the Spike S motor were loaded, and its torque ceiling
\* converts back to a voltage just below its 6000 mV, the division of
\* pbio_observer_voltage_to_torque having truncated
C35_Witness ==
    /\ g.op = "load"
    /\ g.ret = "SUCCESS"
    /\ g.id = "SPIKE_S_MOTOR"
    /\ settings.actuation_max > 0
    /\ pbio_observer_torque_to_voltage(model, settings.actuation_max) < 6000
    /\ pbio_observer_torque_to_voltage(model, settings.actuation_max) >= 6000 - 1

====
